---- MODULE Spec2Model ----
(***************************************************************************)
(* Model of the deterministic state core of the node: the final state,     *)
(* its proof-of-stake cycle history kept in the key/value store, and the   *)
(* snapshot recovery (downtime interpolation).                             *)
(*                                                                         *)
(* The key/value store is a function from keys to serialized values, a     *)
(* batch is an ordered list of puts and deletes collapsed per key, and a   *)
(* panic of the program is the terminal status "panicked" in which the     *)
(* store holds what had been written before the panic.                     *)
(***************************************************************************)
EXTENDS Integers, Sequences, FiniteSets, TLC

VARIABLES
    db,                         \* MassaDB: [store, change_id, hash]
    cycle_history_cache,        \* PoSFinalState.cycle_history_cache, back = newest
    last_start_period,          \* FinalState.last_start_period
    last_slot_before_downtime,  \* FinalState.last_slot_before_downtime (<<>> = None)
    status,                     \* "running" | "panicked" | "failed" | "crashed" | "reset"
    interp,                     \* position inside new_derived_from_snapshot
    last,                       \* the last call: operation, arguments, result, selector feeds
    restarts,                   \* number of restarts from a snapshot so far
    one_bit,                    \* every finalize so far supplied exactly one seed bit
    grid                        \* a time grid, its slots and the last slot computation

final_state_vars ==
    <<db, cycle_history_cache, last_start_period, last_slot_before_downtime,
      status, interp, last, restarts, one_bit>>

vars == <<db, cycle_history_cache, last_start_period, last_slot_before_downtime,
          status, interp, last, restarts, one_bit, grid>>

----------------------------------------------------------------------------
(* Configuration (FinalStateConfig / PoSConfig) *)

thread_count == 3
periods_per_cycle == 2
cycle_history_length == 3

t0 == 6
genesis_timestamp == 10
PERIODS_BETWEEN_BACKUPS == 3

Addresses == {"A", "B"}
initial_rolls == [a \in {"A"} |-> 1]

(* Bounds of the exploration *)
MaxPeriod == 6
MaxRestarts == 2
\* the last period whose slots carry changes other than one seed bit
MaxChangedPeriod == 3

----------------------------------------------------------------------------
(* Hashes are symbolic: Hash.compute_from(x) is the term <<"H", x>>. *)

compute_from(bytes) == <<"H", bytes>>

initial_seed_string == <<"s">>
init_seed == compute_from(initial_seed_string)
\* the two initial seeds in the other order
SwappedSeeds == <<init_seed, compute_from(init_seed)>>

initial_seeds == <<compute_from(init_seed), init_seed>>
initial_ledger_hash == <<"L", <<>>>>

----------------------------------------------------------------------------
(* Slots: <<period, thread>> *)

None == <<>>

get_next_slot(slot) ==
    IF slot[2] = thread_count - 1
    THEN <<slot[1] + 1, 0>>
    ELSE <<slot[1], slot[2] + 1>>

\* Slot::get_prev_slot: an error (None) before <<0, 0>>
get_prev_slot(slot) ==
    IF slot[2] > 0 THEN <<slot[1], slot[2] - 1>>
    ELSE IF slot[1] > 0 THEN <<slot[1] - 1, thread_count - 1>>
    ELSE None

get_cycle(slot) == slot[1] \div periods_per_cycle

is_first_of_cycle(slot) == slot[1] % periods_per_cycle = 0 /\ slot[2] = 0

is_last_of_cycle(slot) ==
    slot[1] % periods_per_cycle = periods_per_cycle - 1 /\ slot[2] = thread_count - 1

new_first_of_cycle(cycle) == <<cycle * periods_per_cycle, 0>>

new_last_of_cycle(cycle) ==
    <<cycle * periods_per_cycle + periods_per_cycle - 1, thread_count - 1>>

SlotLess(a, b) == a[1] < b[1] \/ (a[1] = b[1] /\ a[2] < b[2])

\* Slot::slots_since: number of slots from s to self, an error (-1) when self < s
slots_since(self, s) ==
    IF SlotLess(self, s) THEN -1
    ELSE (self[1] - s[1]) * thread_count + self[2] - s[2]

get_block_slot_timestamp(slot) ==
    genesis_timestamp + (t0 \div thread_count) * slot[2] + t0 * slot[1]

----------------------------------------------------------------------------
(* The MIP store: the versions of each component with the timestamp from   *)
(* which each one is active.                                               *)

HashKindSwitchSlot == <<2, 0>>

mip_store ==
    <<[component |-> "FinalStateHashKind", version |-> 1,
       active_from |-> get_block_slot_timestamp(HashKindSwitchSlot)]>>

get_latest_component_version_at(store, component, ts) ==
    LET active == {i \in 1..Len(store) :
                      store[i].component = component /\ store[i].active_from <= ts}
    IN  IF active = {} THEN 0
        ELSE store[CHOOSE i \in active : \A j \in active : store[j].version <= store[i].version]
                .version

\* the wall-clock times at which a node may run a call
WallClock == {genesis_timestamp, get_block_slot_timestamp(<<MaxPeriod + 2, 0>>)}

\* a version read at the wall-clock time of the call
HashKindVersionNow(ts, now) ==
    get_latest_component_version_at(mip_store, "FinalStateHashKind", now)

\* now is the wall clock of the node, which the function does not read
get_hash_kind_version(ts, now) ==
    get_latest_component_version_at(mip_store, "FinalStateHashKind", ts)

get_only_use_xor(slot, now) == get_hash_kind_version(get_block_slot_timestamp(slot), now) = 1

----------------------------------------------------------------------------
(* Keys of the state column family: <<prefix, n1, n2, address, n3>> *)

CYCLE_HISTORY_PREFIX == "cycle_history"
DEFERRED_CREDITS_PREFIX == "deferred_credits"
LEDGER_PREFIX == "ledger"

COMPLETE_IDENT == 0
RNG_SEED_IDENT == 1
FINAL_STATE_HASH_SNAPSHOT_IDENT == 2
ROLL_COUNT_IDENT == 3
PROD_STATS_IDENT == 4
PROD_STATS_FAIL_IDENT == 0
PROD_STATS_SUCCESS_IDENT == 1

NoAddr == ""

complete_key(cycle) == <<CYCLE_HISTORY_PREFIX, cycle, COMPLETE_IDENT, NoAddr, 0>>
rng_seed_key(cycle) == <<CYCLE_HISTORY_PREFIX, cycle, RNG_SEED_IDENT, NoAddr, 0>>
final_state_hash_snapshot_key(cycle) ==
    <<CYCLE_HISTORY_PREFIX, cycle, FINAL_STATE_HASH_SNAPSHOT_IDENT, NoAddr, 0>>
roll_count_key(cycle, addr) == <<CYCLE_HISTORY_PREFIX, cycle, ROLL_COUNT_IDENT, addr, 0>>
prod_stats_fail_key(cycle, addr) ==
    <<CYCLE_HISTORY_PREFIX, cycle, PROD_STATS_IDENT, addr, PROD_STATS_FAIL_IDENT>>
prod_stats_success_key(cycle, addr) ==
    <<CYCLE_HISTORY_PREFIX, cycle, PROD_STATS_IDENT, addr, PROD_STATS_SUCCESS_IDENT>>
deferred_credits_key(slot, addr) == <<DEFERRED_CREDITS_PREFIX, slot[1], slot[2], addr, 0>>
ledger_key(addr) == <<LEDGER_PREFIX, 0, 0, addr, 0>>

----------------------------------------------------------------------------
(* The store and its batches.  A batch maps a key to its last operation:   *)
(* a key is in put (with its value) or in del, never in both.              *)

EmptyFn == [k \in {} |-> 0]

EmptyBatch == [put |-> EmptyFn, del |-> {}]

Restrict(f, S) == [k \in S |-> f[k]]

put_or_update_entry_value(batch, key, value) ==
    [put |-> (key :> value) @@ batch.put, del |-> batch.del \ {key}]

PutAll(batch, kvs) ==
    [put |-> kvs @@ batch.put, del |-> batch.del \ DOMAIN kvs]

delete_key(batch, key) ==
    [put |-> Restrict(batch.put, DOMAIN batch.put \ {key}), del |-> batch.del \cup {key}]

DeleteAll(batch, keys) ==
    [put |-> Restrict(batch.put, DOMAIN batch.put \ keys), del |-> batch.del \cup keys]

ApplyBatch(store, batch) ==
    [k \in (DOMAIN store \ batch.del) \cup DOMAIN batch.put |->
        IF k \in DOMAIN batch.put THEN batch.put[k] ELSE store[k]]

\* MassaDB::write_batch: one atomic write; the hash of the store is a fresh
\* token after every write; change_id is replaced when one is given.
write_batch(d, batch, change_id) ==
    [store |-> ApplyBatch(d.store, batch),
     change_id |-> IF change_id = None THEN d.change_id ELSE change_id,
     hash |-> d.hash + 1]

get_db_hash(d) == <<"D", d.hash>>

\* The amount deserializer applied to a stored value: the first varint of
\* its serialization.
AmountOf(key, value) ==
    IF key[1] = CYCLE_HISTORY_PREFIX /\ key[3] = RNG_SEED_IDENT THEN Len(value)
    ELSE IF key[1] = CYCLE_HISTORY_PREFIX /\ key[3] = FINAL_STATE_HASH_SNAPSHOT_IDENT
         THEN (IF value = None THEN 0 ELSE 1)
    ELSE value

----------------------------------------------------------------------------
(* PoSFinalState: reads *)

CycleInfo(cycle, complete, roll_counts, rng_seed, production_stats) ==
    [cycle |-> cycle, complete |-> complete, rng_seed |-> rng_seed,
     final_state_hash_snapshot |-> None,
     roll_counts |-> roll_counts, production_stats |-> production_stats]

get_all_roll_counts(store, cycle) ==
    [a \in {x \in Addresses : roll_count_key(cycle, x) \in DOMAIN store} |->
        store[roll_count_key(cycle, a)]]

get_all_production_stats(store, cycle) ==
    [a \in {x \in Addresses : prod_stats_fail_key(cycle, x) \in DOMAIN store
                              \/ prod_stats_success_key(cycle, x) \in DOMAIN store} |->
        [block_success_count |->
            IF prod_stats_success_key(cycle, a) \in DOMAIN store
            THEN store[prod_stats_success_key(cycle, a)] ELSE 0,
         block_failure_count |->
            IF prod_stats_fail_key(cycle, a) \in DOMAIN store
            THEN store[prod_stats_fail_key(cycle, a)] ELSE 0]]

is_cycle_complete(store, cycle) ==
    complete_key(cycle) \in DOMAIN store /\ store[complete_key(cycle)] = 1

\* the cycles that have at least one key, in increasing order, with their flag
StoredCycles(store) == {k[2] : k \in {x \in DOMAIN store : x[1] = CYCLE_HISTORY_PREFIX}}

RECURSIVE SortedCycles(_)
SortedCycles(S) ==
    IF S = {} THEN <<>>
    ELSE LET m == CHOOSE x \in S : \A y \in S : x <= y
         IN <<m>> \o SortedCycles(S \ {m})

\* a reload of the history that takes no stored cycle for complete
ReloadIncomplete(store) ==
    LET cs == SortedCycles(StoredCycles(store))
    IN [i \in 1..Len(cs) |-> <<cs[i], FALSE>>]

get_cycle_history_cycles(store) ==
    LET cs == SortedCycles(StoredCycles(store))
    IN [i \in 1..Len(cs) |-> <<cs[i], is_cycle_complete(store, cs[i])>>]

\* index of a cycle in the history (0-based), -1 for None
get_cycle_index(cache, cycle) ==
    IF cache = <<>> THEN -1
    ELSE IF cycle < cache[1][1] THEN -1
    ELSE IF cycle - cache[1][1] >= Len(cache) THEN -1
    ELSE cycle - cache[1][1]

cycle_history_cache_flag(cache, index) == cache[index + 1][2]

\* BitVec::into_vec: the bits packed into bytes, the last byte padded with zeros
RECURSIVE PadFalse(_, _)
PadFalse(bits, n) == IF Len(bits) >= n THEN bits ELSE PadFalse(Append(bits, FALSE), n)

into_vec(bits) == PadFalse(bits, ((Len(bits) + 7) \div 8) * 8)

----------------------------------------------------------------------------
(* PoSFinalState: writes that go to the store at once *)

CycleInfoEntries(info) ==
    (complete_key(info.cycle) :> (IF info.complete THEN 1 ELSE 0))
    @@ (rng_seed_key(info.cycle) :> info.rng_seed)
    @@ (final_state_hash_snapshot_key(info.cycle) :> info.final_state_hash_snapshot)
    @@ [k \in {roll_count_key(info.cycle, a) : a \in DOMAIN info.roll_counts} |->
            info.roll_counts[k[4]]]
    @@ [k \in {prod_stats_fail_key(info.cycle, a) : a \in DOMAIN info.production_stats} |->
            info.production_stats[k[4]].block_failure_count]
    @@ [k \in {prod_stats_success_key(info.cycle, a) : a \in DOMAIN info.production_stats} |->
            info.production_stats[k[4]].block_success_count]

put_new_cycle_info(d, cache, info) ==
    [db |-> write_batch(d, PutAll(EmptyBatch, CycleInfoEntries(info)), None),
     cache |-> Append(cache, <<info.cycle, info.complete>>)]

delete_cycle_info(d, cycle) ==
    write_batch(d,
        DeleteAll(EmptyBatch,
            {k \in DOMAIN d.store : k[1] = CYCLE_HISTORY_PREFIX /\ k[2] = cycle}),
        None)

\* a history that is never shortened
KeepHistory(d, cache) == [db |-> d, cache |-> cache]

RECURSIVE ShrinkHistory(_, _)
ShrinkHistory(d, cache) ==
    IF Len(cache) > cycle_history_length
    THEN ShrinkHistory(delete_cycle_info(d, cache[1][1]), Tail(cache))
    ELSE [db |-> d, cache |-> cache]

create_initial_cycle(d, cache) ==
    put_new_cycle_info(d, cache,
        CycleInfo(0, FALSE, initial_rolls, [i \in 1..thread_count |-> FALSE], EmptyFn))

\* the result of feed_cycle_state_hash: the store, or a panic when the cycle
\* is not in the history
feed_cycle_state_hash(d, cache, cycle, final_state_hash) ==
    IF get_cycle_index(cache, cycle) # -1
    THEN [panic |-> FALSE,
          db |-> write_batch(d,
                    put_or_update_entry_value(EmptyBatch,
                        final_state_hash_snapshot_key(cycle), <<final_state_hash>>),
                    None)]
    ELSE [panic |-> TRUE, db |-> d]

----------------------------------------------------------------------------
(* PoSFinalState::feed_selector.  The result is <<kind, cycle>>; feeds is  *)
(* the list of feed_cycle calls the selector received (none on an error).  *)

Feed(draw_cycle, rolls, seed) ==
    [draw_cycle |-> draw_cycle, lookback_rolls |-> rolls, lookback_seed |-> seed]

\* a roll lookback of two cycles instead of three
ShortLookback(draw_cycle) == draw_cycle - 2

RollsLookback(draw_cycle) == draw_cycle - 3

SeedLookback(draw_cycle) == draw_cycle - 2

UnavailableKind == "CycleUnavailable"

UnfinishedKind == "CycleUnfinished"

feed_selector(store, cache, draw_cycle) ==
    LET c3 == RollsLookback(draw_cycle)
        c2 == SeedLookback(draw_cycle)
        i3 == get_cycle_index(cache, c3)
        i2 == get_cycle_index(cache, c2)
        lookback_rolls ==
            IF c3 >= 0 THEN get_all_roll_counts(store, c3) ELSE initial_rolls
        lookback_state_hash ==
            IF c3 >= 0 THEN store[final_state_hash_snapshot_key(c3)][1]
            ELSE initial_ledger_hash
        lookback_seed ==
            IF c2 >= 0
            THEN compute_from(<<c2, into_vec(store[rng_seed_key(c2)]), lookback_state_hash>>)
            ELSE initial_seeds[draw_cycle + 1]
    IN  IF c3 >= 0 /\ i3 = -1
            THEN [result |-> <<UnavailableKind, c3>>, feeds |-> <<>>]
        ELSE IF c3 >= 0 /\ ~cycle_history_cache_flag(cache, i3)
            THEN [result |-> <<UnfinishedKind, c3>>, feeds |-> <<>>]
        ELSE IF c3 >= 0 /\ (final_state_hash_snapshot_key(c3) \notin DOMAIN store
                            \/ store[final_state_hash_snapshot_key(c3)] = None)
            THEN [result |-> <<"panic", c3>>, feeds |-> <<>>]
        ELSE IF c2 >= 0 /\ i2 = -1
            THEN [result |-> <<UnavailableKind, c2>>, feeds |-> <<>>]
        ELSE IF c2 >= 0 /\ ~cycle_history_cache_flag(cache, i2)
            THEN [result |-> <<UnfinishedKind, c2>>, feeds |-> <<>>]
        ELSE IF c2 >= 0 /\ rng_seed_key(c2) \notin DOMAIN store
            THEN [result |-> <<"panic", c2>>, feeds |-> <<>>]
        ELSE [result |-> <<"Ok", draw_cycle>>,
              feeds |-> <<Feed(draw_cycle, lookback_rolls, lookback_seed)>>]

----------------------------------------------------------------------------
(* PoSFinalState::apply_changes_to_batch *)

RollEntries(cycle, roll_changes) ==
    [k \in {roll_count_key(cycle, a) : a \in DOMAIN roll_changes} |-> roll_changes[k[4]]]

StatsEntries(cycle, stats) ==
    [k \in {prod_stats_fail_key(cycle, a) : a \in DOMAIN stats} |->
        stats[k[4]].block_failure_count]
    @@ [k \in {prod_stats_success_key(cycle, a) : a \in DOMAIN stats} |->
        stats[k[4]].block_success_count]

CreditEntries(credits) ==
    [k \in {deferred_credits_key(p[1], p[2]) : p \in DOMAIN credits} |->
        credits[<<<<k[2], k[3]>>, k[4]>>]]

\* a sweep that deletes every deferred credit
SweptCredits(store) == {k \in DOMAIN store : k[1] = DEFERRED_CREDITS_PREFIX}

\* the keys the zero sweep deletes: it iterates over the store from its start
SweptKeys(store) == {k \in DOMAIN store : AmountOf(k, store[k]) = 0}

remove_deferred_credits_zeros(store, batch) == DeleteAll(batch, SweptKeys(store))

put_cycle_history_complete(cache, batch, cycle, value) ==
    [cache |-> cache,
     batch |-> put_or_update_entry_value(batch, complete_key(cycle), IF value THEN 1 ELSE 0)]

\* a history extended whatever the flag of its back cycle
ExtendUnfinished(d, cache, cycle) ==
    IF cache = <<>>
    THEN [result |-> <<"ContainerInconsistency", cycle>>, db |-> d, cache |-> cache]
    ELSE IF cycle = cache[Len(cache)][1] \/ cycle = cache[Len(cache)][1] + 1
    THEN [result |-> <<"Ok", cycle>>, db |-> d, cache |-> cache]
    ELSE [result |-> <<"OverflowError", cycle>>, db |-> d, cache |-> cache]

\* the first step: the cycle of the slot against the back of the history
ExtendHistory(d, cache, cycle) ==
    IF cache = <<>>
    THEN [result |-> <<"ContainerInconsistency", cycle>>, db |-> d, cache |-> cache]
    ELSE LET info == cache[Len(cache)]
             Shrunk(s) == [result |-> <<"Ok", cycle>>, db |-> s.db, cache |-> s.cache]
             Pushed(p) == Shrunk(ShrinkHistory(p.db, p.cache))
         IN
         IF cycle = info[1] /\ ~info[2]
         THEN [result |-> <<"Ok", cycle>>, db |-> d, cache |-> cache]
         ELSE IF info[1] + 1 = cycle /\ info[2]
         THEN Pushed(put_new_cycle_info(d, cache,
                  CycleInfo(cycle, FALSE, get_all_roll_counts(d.store, info[1]),
                            <<>>, EmptyFn)))
         ELSE [result |-> <<"OverflowError", cycle>>, db |-> d, cache |-> cache]

\* a seed that is never checked
SeedNeverChecked(complete, rng_seed) == FALSE

\* the check of the seed of a cycle that just completed
IncorrectSeedBits(complete, rng_seed) ==
    complete /\ Len(rng_seed) # periods_per_cycle * thread_count

apply_changes_to_batch(d, cache, changes, slot, feed, batch) ==
    LET slots_per_cycle == periods_per_cycle * thread_count
        cycle == get_cycle(slot)
        complete == is_last_of_cycle(slot)
        Fed(h, pc, b, fs) ==
            [result |-> fs.result, db |-> h.db, cache |-> pc.cache,
             batch |-> b, feeds |-> fs.feeds]
        Swept(h, pc, b) ==
            IF complete /\ feed
            THEN Fed(h, pc, b, feed_selector(h.db.store, pc.cache, cycle + 2))
            ELSE [result |-> <<"Ok", cycle>>, db |-> h.db, cache |-> pc.cache,
                  batch |-> b, feeds |-> <<>>]
        Extended(h, pc, rng_seed) ==
            IF IncorrectSeedBits(complete, rng_seed)
            THEN [result |-> <<"panic", cycle>>, db |-> h.db, cache |-> pc.cache,
                  batch |-> pc.batch, feeds |-> <<>>]
            ELSE Swept(h, pc,
                    remove_deferred_credits_zeros(h.db.store,
                        PutAll(PutAll(PutAll(
                            put_or_update_entry_value(pc.batch, rng_seed_key(cycle), rng_seed),
                            RollEntries(cycle, changes.roll_changes)),
                            StatsEntries(cycle, changes.production_stats)),
                            CreditEntries(changes.deferred_credits))))
        Flagged(h, pc) ==
            IF rng_seed_key(cycle) \notin DOMAIN h.db.store
            THEN [result |-> <<"panic", cycle>>, db |-> h.db, cache |-> pc.cache,
                  batch |-> pc.batch, feeds |-> <<>>]
            ELSE Extended(h, pc, h.db.store[rng_seed_key(cycle)] \o changes.seed_bits)
        Settled(h) ==
            IF h.result[1] # "Ok"
            THEN [result |-> h.result, db |-> h.db, cache |-> h.cache,
                  batch |-> batch, feeds |-> <<>>]
            ELSE Flagged(h, put_cycle_history_complete(h.cache, batch, cycle, complete))
    IN  Settled(ExtendHistory(d, cache, cycle))

----------------------------------------------------------------------------
(* FinalState::finalize *)

\* a check that accepts every later slot
SlotIsLater(slot, cur_slot) == SlotLess(cur_slot, slot)

\* the assert_eq on the slot
SlotIsNext(slot, cur_slot) == slot = get_next_slot(cur_slot)

\* LedgerController::apply_changes_to_batch: the balances the changes set
LedgerEntries(ledger_changes) ==
    [k \in {ledger_key(a) : a \in DOMAIN ledger_changes} |-> ledger_changes[k[4]]]

\* a checkpoint at every period
BackupEachPeriod(slot) == slot[1] # 0 /\ slot[2] = 0

\* the condition of the backup of the store
BackupDue(slot) ==
    slot[1] % PERIODS_BETWEEN_BACKUPS = 0 /\ slot[1] # 0 /\ slot[2] = 0

\* MassaDB::backup_db: a named checkpoint of the version of the store
backup_db(d, slot) == [slot |-> slot, change_id |-> d.change_id, hash |-> get_db_hash(d)]

\* the result carries the hash scheme given to the write of the slot and the
\* checkpoints requested (both empty when the call did not come that far)
finalize(d, cache, slot, changes, now) ==
    LET Snapshotted(r, d2, f) ==
            [result |-> IF f.panic THEN <<"panic_hash", 0>> ELSE <<"Ok", 0>>,
             db |-> f.db, cache |-> r.cache, feeds |-> r.feeds,
             only_use_xor |-> <<get_only_use_xor(slot, now)>>,
             backup |-> IF BackupDue(slot) THEN <<backup_db(d2, slot)>> ELSE <<>>]
        Written(r, d2) ==
            Snapshotted(r, d2,
                feed_cycle_state_hash(d2, r.cache, get_cycle(slot), get_db_hash(d2)))
        Applied(r) ==
            IF r.result[1] # "Ok"
            THEN [result |-> <<"panic_pos", r.result>>, db |-> r.db, cache |-> r.cache,
                  feeds |-> r.feeds, only_use_xor |-> <<>>, backup |-> <<>>]
            ELSE Written(r, write_batch(r.db,
                                PutAll(r.batch, LedgerEntries(changes.ledger_changes)), slot))
    IN  IF ~SlotIsNext(slot, d.change_id)
        THEN [result |-> <<"panic_slot", 0>>, db |-> d, cache |-> cache, feeds |-> <<>>,
              only_use_xor |-> <<>>, backup |-> <<>>]
        ELSE Applied(apply_changes_to_batch(d, cache, changes.pos_changes, slot, TRUE,
                                            EmptyBatch))

\* the versions of the store during one finalize: before the call, after the
\* writes of put_new_cycle_info and delete_cycle_info, after the batch of the
\* slot, after the write of feed_cycle_state_hash
finalize_writes(d, cache, slot, changes) ==
    LET Written(r, d2) ==
            <<d, r.db, d2,
              feed_cycle_state_hash(d2, r.cache, get_cycle(slot), get_db_hash(d2)).db>>
        Applied(r) ==
            IF r.result[1] # "Ok" THEN <<d, r.db>>
            ELSE Written(r, write_batch(r.db,
                                PutAll(r.batch, LedgerEntries(changes.ledger_changes)), slot))
    IN  IF ~SlotIsNext(slot, d.change_id) THEN <<d>>
        ELSE Applied(apply_changes_to_batch(d, cache, changes.pos_changes, slot, TRUE,
                                            EmptyBatch))

----------------------------------------------------------------------------
(* PoSFinalState::compute_initial_draws and create_new_cycle_from_last *)

RECURSIVE FeedFromHistory(_, _, _, _)
FeedFromHistory(store, cache, idx, late) ==
    LET Rest(f, rest) == [result |-> rest.result, feeds |-> f.feeds \o rest.feeds]
        FedOne(f) ==
            IF f.result[1] # "Ok" THEN f
            ELSE Rest(f, FeedFromHistory(store, cache, idx + 1, late))
    IN  IF idx > Len(cache) \/ ~cache[idx][2]
        THEN [result |-> <<"Ok", 0>>, feeds |-> <<>>]
        ELSE IF late /\ idx = 1
        THEN FeedFromHistory(store, cache, idx + 1, late)
        ELSE FedOne(feed_selector(store, cache, cache[idx][1] + 2))

\* SelectorController::wait_for_draws: the selector confirms the draws of
\* the cycle, or its channel is down
wait_for_draws(drawn, cycle) ==
    IF drawn THEN <<"Ok", cycle>> ELSE <<"ChannelDown", cycle>>

\* the feeds of the call, then the wait for the last cycle fed; waits is the
\* list of wait_for_draws calls
WaitForFed(fed, drawn) ==
    LET max_cycle == IF fed.feeds = <<>> THEN <<>>
                     ELSE <<fed.feeds[Len(fed.feeds)].draw_cycle>>
    IN  IF fed.result[1] # "Ok" \/ max_cycle = <<>>
        THEN [result |-> fed.result, feeds |-> fed.feeds, waits |-> <<>>]
        ELSE [result |-> IF wait_for_draws(drawn, max_cycle[1])[1] = "Ok"
                         THEN <<"Ok", 0>>
                         ELSE wait_for_draws(drawn, max_cycle[1]),
              feeds |-> fed.feeds, waits |-> max_cycle]

\* initial draws that feed the cycles 0 and 1 whatever the history
DrawsFromGenesis(store, cache, drawn) ==
    LET first == feed_selector(store, cache, 0).feeds \o feed_selector(store, cache, 1).feeds
        FromHistory(hist) == [result |-> hist.result, feeds |-> first \o hist.feeds]
    IN  WaitForFed(FromHistory(FeedFromHistory(store, cache, 1, cache # <<>> /\ cache[1][1] > 0)),
                   drawn)

\* drawn is the answer of the selector to wait_for_draws
compute_initial_draws(store, cache, drawn) ==
    LET history_starts_late == cache # <<>> /\ cache[1][1] > 0
        first == IF history_starts_late THEN <<>>
                 ELSE feed_selector(store, cache, 0).feeds \o feed_selector(store, cache, 1).feeds
        FromHistory(hist) == [result |-> hist.result, feeds |-> first \o hist.feeds]
    IN  WaitForFed(FromHistory(FeedFromHistory(store, cache, 1, history_starts_late)), drawn)

create_new_cycle_from_last(d, cache, last_cycle_info, first_slot, last_slot) ==
    LET rng_seed == IF is_first_of_cycle(first_slot) THEN <<>> ELSE last_cycle_info.rng_seed
        cycle == get_cycle(last_slot)
        since == slots_since(last_slot, first_slot)
        num_slots == since + 1
        complete == is_last_of_cycle(last_slot)
        Put(p) == [panic |-> FALSE, db |-> p.db, cache |-> p.cache]
    IN IF since = -1
       THEN [panic |-> TRUE, db |-> d, cache |-> cache]
       ELSE Put(put_new_cycle_info(d, cache,
                CycleInfo(cycle, complete, last_cycle_info.roll_counts,
                          rng_seed \o [i \in 1..num_slots |-> FALSE],
                          last_cycle_info.production_stats)))

\* PoSFinalState::get_cycle_info; it panics when the seed or the snapshot key
\* of the cycle is not in the store
CycleInfoReadable(store, cycle) ==
    /\ rng_seed_key(cycle) \in DOMAIN store
    /\ final_state_hash_snapshot_key(cycle) \in DOMAIN store

get_cycle_info(store, cycle) ==
    [cycle |-> cycle,
     complete |-> is_cycle_complete(store, cycle),
     rng_seed |-> store[rng_seed_key(cycle)],
     final_state_hash_snapshot |-> store[final_state_hash_snapshot_key(cycle)],
     roll_counts |-> get_all_roll_counts(store, cycle),
     production_stats |-> get_all_production_stats(store, cycle)]

----------------------------------------------------------------------------
(* FinalState: snapshot recovery *)

\* SelectorController::feed_cycle as called at the end of feed_selector: the
\* selector is another worker behind a channel; when the channel is down the
\* call is an error and the selector receives nothing
feed_cycle(selector_up, fs) ==
    IF fs.result[1] = "Ok" /\ ~selector_up
    THEN [result |-> <<"ChannelDown", fs.result[2]>>, feeds |-> <<>>]
    ELSE fs

\* feed_cycle_hash_and_selector_for_interpolation
feed_cycle_hash_and_selector_for_interpolation(d, cache, cycle, selector_up) ==
    LET Fed(f, s) ==
            IF s.result[1] = "panic" THEN [result |-> s.result, db |-> f.db, feeds |-> <<>>]
            ELSE IF s.result[1] # "Ok"
            THEN [result |-> <<"PosError", cycle>>, db |-> f.db, feeds |-> <<>>]
            ELSE [result |-> <<"Ok", cycle>>, db |-> f.db, feeds |-> s.feeds]
        Hashed(f) ==
            IF f.panic THEN [result |-> <<"panic", cycle>>, db |-> f.db, feeds |-> <<>>]
            ELSE Fed(f, feed_cycle(selector_up,
                                   feed_selector(f.db.store, cache, cycle + 2)))
    IN  Hashed(feed_cycle_state_hash(d, cache, cycle, get_db_hash(d)))

EndSlotThreadZero(period) == <<period, 0>>

EndSlot(period) == <<period, thread_count - 1>>

----------------------------------------------------------------------------
(* FinalState::new and FinalState::reset *)

\* the slot the state is attached to before the first finalize
GenesisAnchor == <<0, thread_count - 1>>

\* PoSFinalState::reset: the cycle history and the deferred credits are
\* deleted from the store; cycle_history_cache is not touched (&self)
pos_state_reset(d) ==
    write_batch(d,
        DeleteAll(EmptyBatch,
            {k \in DOMAIN d.store : k[1] \in {CYCLE_HISTORY_PREFIX, DEFERRED_CREDITS_PREFIX}}),
        None)

\* MassaDB::set_initial_change_id
set_initial_change_id(d, slot) == [d EXCEPT !.change_id = slot]

\* MassaDB::reset: every entry is deleted and the store is attached to slot
db_reset(d, slot) == [store |-> EmptyFn, change_id |-> slot, hash |-> d.hash + 1]

\* a constructor that keeps the change-id it finds
NewAtDbSlot(d, reset_final_state) ==
    [db |-> IF reset_final_state THEN pos_state_reset(d) ELSE d,
     cache |-> get_cycle_history_cycles(d.store)]

\* FinalState::new: PoSFinalState::new loads the history from the store, then
\* with reset_final_state the components are reset and the change-id set;
\* the ledger is kept
new(d, reset_final_state) ==
    [db |-> IF reset_final_state
            THEN set_initial_change_id(pos_state_reset(d), GenesisAnchor)
            ELSE d,
     cache |-> get_cycle_history_cycles(d.store)]

\* FinalState::reset
reset(d, cache) ==
    [db |-> pos_state_reset(db_reset(d, GenesisAnchor)), cache |-> cache]

\* the outcome of one step of the recovery as the next status
StepStatus(result) ==
    IF result[1] = "Ok" THEN "running"
    ELSE IF result[1] = "panic" THEN "panicked"
    ELSE "failed"

----------------------------------------------------------------------------
(* Inputs *)

PoSChanges(seed_bits, roll_changes, production_stats, deferred_credits) ==
    [seed_bits |-> seed_bits, roll_changes |-> roll_changes,
     production_stats |-> production_stats, deferred_credits |-> deferred_credits]

CreditSlot == <<MaxPeriod + 1, 0>>

Stats(success, failure) ==
    [block_success_count |-> success, block_failure_count |-> failure]

PoSChangesSet ==
    {PoSChanges(s, EmptyFn, EmptyFn, EmptyFn) : s \in {<<>>, <<FALSE>>, <<TRUE>>}}
    \cup {PoSChanges(<<TRUE>>, ("B" :> 1), EmptyFn, (<<CreditSlot, "A">> :> 1)),
          PoSChanges(<<FALSE>>, ("A" :> 0), ("A" :> Stats(1, 0)), EmptyFn),
          PoSChanges(<<FALSE>>, EmptyFn, EmptyFn, (<<CreditSlot, "A">> :> 0))}

StateChangesSet ==
    {[pos_changes |-> p, ledger_changes |-> EmptyFn] : p \in PoSChangesSet}
    \cup {[pos_changes |-> PoSChanges(<<FALSE>>, EmptyFn, EmptyFn, EmptyFn),
           ledger_changes |-> ("A" :> n)] : n \in {0, 1}}

----------------------------------------------------------------------------
(* The state machine *)

Idle == [phase |-> "idle"]

Call(op, arg, changes, result, feeds) ==
    [op |-> op, arg |-> arg, changes |-> changes, result |-> result, feeds |-> feeds]

\* a call of finalize, with the wall clock of the node, the hash scheme and
\* the checkpoints of the call
FinalizeCall(slot, changes, now, r) ==
    [op |-> "finalize", arg |-> slot, changes |-> changes, result |-> r.result,
     feeds |-> r.feeds, now |-> now, only_use_xor |-> r.only_use_xor, backup |-> r.backup]

\* the time grid of the node, no slot computation made
NodeGrid ==
    [thread_count |-> thread_count, t0 |-> t0, genesis_timestamp |-> genesis_timestamp,
     slot |-> <<0, 0>>, other |-> <<0, 0>>, steps |-> 0, out |-> [op |-> "none"]]

\* FinalState::new with reset_final_state, then create_initial_cycle
InitDb ==
    create_initial_cycle(
        [store |-> EmptyFn, change_id |-> <<0, thread_count - 1>>, hash |-> 0], <<>>)

Init ==
    /\ db = InitDb.db
    /\ cycle_history_cache = InitDb.cache
    /\ last_start_period = 0
    /\ last_slot_before_downtime = None
    /\ status = "running"
    /\ interp = Idle
    /\ last = Call("new", None, None, <<"Ok", 0>>, <<>>)
    /\ restarts = 0
    /\ one_bit = TRUE
    /\ grid = NodeGrid

\* the slots a driver may pass to finalize: the next one, a repeated one,
\* a skipped one and an older one
CandidateSlots(cur_slot) ==
    {get_next_slot(cur_slot), cur_slot, get_next_slot(get_next_slot(cur_slot)), <<0, 0>>}

PlainChanges ==
    {c \in StateChangesSet :
        c.ledger_changes = EmptyFn /\ c.pos_changes.deferred_credits = EmptyFn
        /\ c.pos_changes.seed_bits = <<FALSE>>}

ChangesFor(slot, cur_slot) ==
    IF slot = get_next_slot(cur_slot) /\ slot[1] <= MaxChangedPeriod THEN StateChangesSet
    ELSE PlainChanges

Finalize ==
    /\ status = "running"
    /\ interp.phase = "idle"
    /\ \E slot \in CandidateSlots(db.change_id) :
       \E changes \in ChangesFor(slot, db.change_id) :
       \E now \in WallClock :
        LET Done(r) ==
                /\ db' = r.db
                /\ cycle_history_cache' = r.cache
                /\ status' = IF r.result[1] = "Ok" THEN "running" ELSE "panicked"
                /\ last' = FinalizeCall(slot, changes, now, r)
                /\ one_bit' = (one_bit /\ (r.result[1] = "panic_slot"
                                            \/ Len(changes.pos_changes.seed_bits) = 1))
        IN  /\ slot[1] <= MaxPeriod + 1
            /\ Done(finalize(db, cycle_history_cache, slot, changes, now))
    /\ UNCHANGED <<grid, last_start_period, last_slot_before_downtime, interp, restarts>>

\* the process stops during finalize, after one of the writes of the call;
\* what is left is the store, and the history a recovery loads from it
CrashInFinalize ==
    /\ status = "running"
    /\ interp.phase = "idle"
    /\ \E changes \in PlainChanges :
        LET slot == get_next_slot(db.change_id)
            Stopped(w) ==
                \E i \in 1..Len(w) :
                    /\ db' = w[i]
                    /\ cycle_history_cache' = get_cycle_history_cycles(w[i].store)
                    /\ last' = Call("finalize_crash", slot, changes, <<"crash", i>>, <<>>)
        IN  /\ slot[1] <= MaxPeriod + 1
            /\ Stopped(finalize_writes(db, cycle_history_cache, slot, changes))
    /\ status' = "crashed"
    /\ UNCHANGED <<grid, last_start_period, last_slot_before_downtime, interp, restarts, one_bit>>

FeedSelector ==
    /\ status = "running"
    /\ interp.phase = "idle"
    /\ \E draw_cycle \in 0..(get_cycle(<<MaxPeriod, 0>>) + 3) :
        LET Done(r) ==
                /\ status' = IF r.result[1] = "panic" THEN "panicked" ELSE "running"
                /\ last' = Call("feed_selector", draw_cycle, None, r.result, r.feeds)
        IN  Done(feed_selector(db.store, cycle_history_cache, draw_cycle))
    /\ UNCHANGED <<grid, db, cycle_history_cache, last_start_period, last_slot_before_downtime,
                   interp, restarts, one_bit>>

\* the answers of MipStore::is_coherent_with_shutdown_period: Ok(true),
\* Ok(false) or an error
CoherenceAnswers == {"coherent", "not_coherent", "error"}

\* the shutdown period the MIP store is checked against
ShutdownPeriod(recovered_slot, period) ==
    [start |-> get_next_slot(recovered_slot), end |-> get_prev_slot(<<period, 0>>)]

\* an error of the check read as coherent
CoherentOrError(answer) == answer # "not_coherent"

\* the test on the answer: .unwrap_or(false)
MipCoherent(answer) == answer = "coherent"

\* FinalState::new_derived_from_snapshot up to the call of interpolate_downtime.
\* The store is the one a running node left; the MIP store is external and
\* is coherent with the shutdown period or not.
NewDerivedFromSnapshot ==
    /\ status = "running"
    /\ interp.phase = "idle"
    /\ restarts < MaxRestarts
    /\ \E period \in 1..MaxPeriod, answer \in CoherenceAnswers, drawn \in BOOLEAN :
        LET recovered_slot == db.change_id
            Checked(c) ==
                [c EXCEPT !.changes = [shutdown |-> ShutdownPeriod(recovered_slot, period),
                                       answer |-> answer]]
            Drawn(cache, draws) ==
                /\ cycle_history_cache' = cache
                /\ status' = StepStatus(draws.result)
                /\ last_start_period' = period
                /\ interp' = IF draws.result[1] = "Ok"
                             THEN [phase |-> "pop", current_slot |-> recovered_slot,
                                   end_slot |-> EndSlot(period), snapshot |-> db]
                             ELSE Idle
                /\ last' = Checked(Call("new_derived_from_snapshot", period, None,
                                        draws.result, draws.feeds))
            Loaded(cache) ==
                IF ~MipCoherent(answer)
                THEN /\ cycle_history_cache' = cache
                     /\ status' = "failed"
                     /\ last_start_period' = 0
                     /\ interp' = Idle
                     /\ last' = Checked(Call("new_derived_from_snapshot", period, None,
                                             <<"InvalidSlot", 0>>, <<>>))
                ELSE Drawn(cache, compute_initial_draws(db.store, cache, drawn))
        IN
        /\ SlotLess(recovered_slot, EndSlot(period))
        /\ last_slot_before_downtime' = recovered_slot
        /\ Loaded(get_cycle_history_cycles(db.store))
    /\ restarts' = restarts + 1
    /\ UNCHANGED <<grid, db, one_bit>>

\* interpolate_single_cycle / interpolate_multiple_cycles: the last cycle of
\* the snapshot is popped, read and deleted
InterpolatePop ==
    /\ status = "running"
    /\ interp.phase = "pop"
    /\ IF cycle_history_cache = <<>>
       THEN /\ status' = "failed"
            /\ interp' = Idle
            /\ last' = Call("interpolate_pop", None, None, <<"SnapshotError", 0>>, <<>>)
            /\ UNCHANGED <<db, cycle_history_cache>>
       ELSE LET latest_snapshot_cycle == cycle_history_cache[Len(cycle_history_cache)]
                popped == SubSeq(cycle_history_cache, 1, Len(cycle_history_cache) - 1)
            IN
            /\ cycle_history_cache' = popped
            /\ IF ~CycleInfoReadable(db.store, latest_snapshot_cycle[1])
               THEN /\ status' = "panicked"
                    /\ interp' = Idle
                    /\ db' = db
                    /\ last' = Call("interpolate_pop", latest_snapshot_cycle[1], None,
                                    <<"panic", 0>>, <<>>)
               ELSE /\ status' = "running"
                    /\ db' = write_batch(delete_cycle_info(db, latest_snapshot_cycle[1]),
                                         EmptyBatch, interp.end_slot)
                    /\ interp' = [phase |-> IF get_cycle(interp.current_slot)
                                                = get_cycle(interp.end_slot)
                                            THEN "single" ELSE "first",
                                  current_slot |-> interp.current_slot,
                                  end_slot |-> interp.end_slot,
                                  snapshot |-> interp.snapshot,
                                  info |-> get_cycle_info(db.store, latest_snapshot_cycle[1]),
                                  cycle |-> get_cycle(interp.current_slot)]
                    /\ last' = Call("interpolate_pop", latest_snapshot_cycle[1], None,
                                    <<"Ok", 0>>, <<>>)
    /\ UNCHANGED <<grid, last_start_period, last_slot_before_downtime, restarts, one_bit>>

\* the downtime a restart has gone over: the snapshot it started from
Downtime == [snapshot |-> interp.snapshot]

\* interpolate_single_cycle after the pop, then the end of interpolate_downtime
InterpolateSingleCycle ==
    /\ status = "running"
    /\ interp.phase = "single"
    /\ LET Hashed(c, f) ==
               /\ cycle_history_cache' = c.cache
               /\ db' = f.db
               /\ status' = IF f.panic THEN "panicked" ELSE "running"
               /\ last' = Call("interpolate_single_cycle", get_cycle(interp.end_slot), Downtime,
                               IF f.panic THEN <<"panic", 0>> ELSE <<"Ok", 0>>, <<>>)
           Written(c, d2) ==
               Hashed(c, feed_cycle_state_hash(d2, c.cache, get_cycle(interp.end_slot),
                                               get_db_hash(d2)))
           Created(c) ==
               IF c.panic
               THEN /\ cycle_history_cache' = c.cache
                    /\ db' = c.db
                    /\ status' = "panicked"
                    /\ last' = Call("interpolate_single_cycle", get_cycle(interp.end_slot),
                                    Downtime, <<"panic", 0>>, <<>>)
               ELSE Written(c, write_batch(c.db, EmptyBatch, interp.end_slot))
       IN  Created(create_new_cycle_from_last(db, cycle_history_cache, interp.info,
                       get_next_slot(interp.current_slot), interp.end_slot))
    /\ interp' = Idle
    /\ UNCHANGED <<grid, last_start_period, last_slot_before_downtime, restarts, one_bit>>

\* one completed cycle of interpolate_multiple_cycles: the cycle is created
\* from first_slot to its last slot, the change-id is written, the hash and
\* the selector are fed; then the loop goes on to the next cycle
InterpolateCompletedCycle(op, first_slot) ==
    LET Fed(c, r) ==
            /\ cycle_history_cache' = c.cache
            /\ db' = r.db
            /\ status' = StepStatus(r.result)
            /\ last' = Call(op, interp.cycle, None, r.result, r.feeds)
            /\ interp' = IF r.result[1] # "Ok" THEN Idle
                         ELSE [interp EXCEPT
                                 !.phase = IF interp.cycle + 1 < get_cycle(interp.end_slot)
                                           THEN "middle" ELSE "last",
                                 !.cycle = interp.cycle + 1]
        Created(c) ==
            IF c.panic
            THEN /\ cycle_history_cache' = c.cache
                 /\ db' = c.db
                 /\ status' = "panicked"
                 /\ last' = Call(op, interp.cycle, None, <<"panic", 0>>, <<>>)
                 /\ interp' = Idle
            ELSE \E selector_up \in BOOLEAN :
                    Fed(c, feed_cycle_hash_and_selector_for_interpolation(
                                write_batch(c.db, EmptyBatch, interp.end_slot),
                                c.cache, interp.cycle, selector_up))
    IN  Created(create_new_cycle_from_last(db, cycle_history_cache, interp.info,
                    first_slot, new_last_of_cycle(interp.cycle)))

\* interpolate_multiple_cycles: the first cycle is completed
InterpolateFirstCycle ==
    /\ status = "running"
    /\ interp.phase = "first"
    /\ InterpolateCompletedCycle("interpolate_first_cycle", get_next_slot(interp.current_slot))
    /\ UNCHANGED <<grid, last_start_period, last_slot_before_downtime, restarts, one_bit>>

\* interpolate_multiple_cycles: one completed cycle in between
InterpolateMiddleCycle ==
    /\ status = "running"
    /\ interp.phase = "middle"
    /\ InterpolateCompletedCycle("interpolate_middle_cycle", new_first_of_cycle(interp.cycle))
    /\ UNCHANGED <<grid, last_start_period, last_slot_before_downtime, restarts, one_bit>>

\* interpolate_multiple_cycles: the last cycle, the shrinking of the history,
\* then the end of interpolate_downtime
InterpolateLastCycle ==
    /\ status = "running"
    /\ interp.phase = "last"
    /\ LET end_slot_cycle == get_cycle(interp.end_slot)
           Hashed(r, s, f) ==
               /\ cycle_history_cache' = s.cache
               /\ db' = f.db
               /\ status' = IF f.panic THEN "panicked" ELSE "running"
               /\ last' = Call("interpolate_last_cycle", end_slot_cycle, Downtime,
                               IF f.panic THEN <<"panic", 0>> ELSE <<"Ok", 0>>, r.feeds)
           Written(r, s, d2) ==
               Hashed(r, s, feed_cycle_state_hash(d2, s.cache, end_slot_cycle, get_db_hash(d2)))
           Shrunk(r, s) == Written(r, s, write_batch(s.db, EmptyBatch, interp.end_slot))
           Fed(c, r) ==
               IF r.result[1] # "Ok"
               THEN /\ cycle_history_cache' = c.cache
                    /\ db' = r.db
                    /\ status' = StepStatus(r.result)
                    /\ last' = Call("interpolate_last_cycle", end_slot_cycle, Downtime,
                                    r.result, r.feeds)
               ELSE Shrunk(r, ShrinkHistory(r.db, c.cache))
           Created(c) ==
               IF c.panic
               THEN /\ cycle_history_cache' = c.cache
                    /\ db' = c.db
                    /\ status' = "panicked"
                    /\ last' = Call("interpolate_last_cycle", end_slot_cycle, Downtime,
                                    <<"panic", 0>>, <<>>)
               ELSE IF is_last_of_cycle(interp.end_slot)
               THEN \E selector_up \in BOOLEAN :
                        Fed(c, feed_cycle_hash_and_selector_for_interpolation(
                                   c.db, c.cache, end_slot_cycle, selector_up))
               ELSE Fed(c, [result |-> <<"Ok", end_slot_cycle>>, db |-> c.db, feeds |-> <<>>])
       IN  Created(create_new_cycle_from_last(db, cycle_history_cache, interp.info,
                       new_first_of_cycle(end_slot_cycle), interp.end_slot))
    /\ interp' = Idle
    /\ UNCHANGED <<grid, last_start_period, last_slot_before_downtime, restarts, one_bit>>

\* FinalState::new on the database a node finds when it starts
New ==
    /\ status = "running"
    /\ interp.phase = "idle"
    /\ restarts < MaxRestarts
    /\ \E reset_final_state \in BOOLEAN :
        LET Built(r) ==
                /\ db' = r.db
                /\ cycle_history_cache' = r.cache
                /\ last' = Call("new_final_state", reset_final_state, [db |-> db], <<"Ok", 0>>, <<>>)
        IN  Built(new(db, reset_final_state))
    /\ last_start_period' = 0
    /\ last_slot_before_downtime' = None
    /\ restarts' = restarts + 1
    /\ UNCHANGED <<grid, status, interp, one_bit>>

\* FinalState::reset, called by the bootstrap before it ingests a state; the
\* ingest is not part of the model
Reset ==
    /\ status = "running"
    /\ interp.phase = "idle"
    /\ LET Cleared(r) ==
               /\ db' = r.db
               /\ cycle_history_cache' = r.cache
       IN  Cleared(reset(db, cycle_history_cache))
    /\ last' = Call("reset", None, [db |-> db], <<"Ok", 0>>, <<>>)
    /\ status' = "reset"
    /\ UNCHANGED <<grid, last_start_period, last_slot_before_downtime, interp, restarts, one_bit>>

Next ==
    \/ New
    \/ Reset
    \/ Finalize
    \/ CrashInFinalize
    \/ FeedSelector
    \/ NewDerivedFromSnapshot
    \/ InterpolatePop
    \/ InterpolateSingleCycle
    \/ InterpolateFirstCycle
    \/ InterpolateMiddleCycle
    \/ InterpolateLastCycle

Spec == Init /\ [][Next]_vars

----------------------------------------------------------------------------
(* Properties *)

AtRest == status = "running" /\ interp.phase = "idle"

FinalizeCalled == last.op = "finalize"

\* the slot was the next one: the call went past the assert
FinalizeAccepted == FinalizeCalled /\ last.result[1] # "panic_slot"

FinalizedOk == FinalizeCalled /\ last.result[1] = "Ok"

Back == cycle_history_cache[Len(cycle_history_cache)]

Tracked == {cycle_history_cache[i][1] : i \in 1..Len(cycle_history_cache)}

TrackedComplete == {cycle_history_cache[i][1] :
                        i \in {j \in 1..Len(cycle_history_cache) : cycle_history_cache[j][2]}}

Contiguous(cache) == \A i \in 1..(Len(cache) - 1) : cache[i + 1][1] = cache[i][1] + 1

RollKeys(store) ==
    {k \in DOMAIN store : k[1] = CYCLE_HISTORY_PREFIX /\ k[3] = ROLL_COUNT_IDENT}

CreditKeys(store) == {k \in DOMAIN store : k[1] = DEFERRED_CREDITS_PREFIX}

\* roll counts with a set of roll changes applied, a count of 0 removing the address
WithRollChanges(rolls, roll_changes) ==
    [a \in {x \in DOMAIN rolls \cup DOMAIN roll_changes :
                IF x \in DOMAIN roll_changes THEN roll_changes[x] # 0 ELSE rolls[x] # 0} |->
        IF a \in DOMAIN roll_changes THEN roll_changes[a] ELSE rolls[a]]

\* the number of slots of a tracked cycle that are settled when the store is at change_id
SlotsSettledIn(cycle) ==
    IF cycle < get_cycle(db.change_id) THEN periods_per_cycle * thread_count
    ELSE slots_since(db.change_id, new_first_of_cycle(cycle)) + 1

\* C1: finalize is accepted only for the slot that follows the change-id of
\* the store; for any other slot (repeated, skipped, older) the call is fatal
\* and leaves the store (every key, the change-id, the hash) and the history
\* as they were.
C1_FinalizeOnlyNextSlot ==
    [][(last'.op = "finalize" /\ last'.arg # get_next_slot(db.change_id))
            => /\ last'.result = <<"panic_slot", 0>>
               /\ status' = "panicked"
               /\ db' = db
               /\ cycle_history_cache' = cycle_history_cache]_vars

C1_Witness ==
    /\ FinalizeCalled
    /\ last.result = <<"panic_slot", 0>>
    /\ last.arg = get_next_slot(get_next_slot(db.change_id))
    /\ db.change_id # <<0, thread_count - 1>>

\* C2: after every successful finalize(s, changes) the change-id of the store
\* is s, the back of the cycle history is cycle(s), and every cycle of the
\* history older than the back is complete, in the history and in the store.
C2_AfterFinalize ==
    FinalizedOk =>
        /\ db.change_id = last.arg
        /\ cycle_history_cache # <<>>
        /\ Back[1] = get_cycle(last.arg)
        /\ \A i \in 1..(Len(cycle_history_cache) - 1) :
              /\ cycle_history_cache[i][2]
              /\ is_cycle_complete(db.store, cycle_history_cache[i][1])

C2_Witness ==
    /\ FinalizedOk
    /\ Len(cycle_history_cache) >= 2
    /\ is_first_of_cycle(last.arg)

C4_LastSlotCompletes ==
    (FinalizeAccepted /\ is_last_of_cycle(last.arg) /\ one_bit) =>
        /\ last.result[1] = "Ok"
        /\ cycle_history_cache # <<>>
        /\ Back = <<get_cycle(last.arg), TRUE>>
        /\ final_state_hash_snapshot_key(get_cycle(last.arg)) \in DOMAIN db.store
        /\ db.store[final_state_hash_snapshot_key(get_cycle(last.arg))] # None
        /\ \E i \in 1..Len(last.feeds) : last.feeds[i].draw_cycle = get_cycle(last.arg) + 2

\* C5: the finalize of the first slot of cycle C + 1, right after the last
\* slot of C, succeeds and creates C + 1 as an incomplete entry at the back
\* of the history, with the roll counts of C and the roll_changes of the slot
\* applied (a change to 0 removes the address).
C5_FirstSlotCreatesCycle ==
    (FinalizeAccepted /\ is_first_of_cycle(last.arg)) =>
        /\ last.result[1] = "Ok"
        /\ cycle_history_cache # <<>>
        /\ Back = <<get_cycle(last.arg), FALSE>>
        /\ get_all_roll_counts(db.store, get_cycle(last.arg))
              = WithRollChanges(get_all_roll_counts(db.store, get_cycle(last.arg) - 1),
                                last.changes.pos_changes.roll_changes)

\* C6: when every finalize supplies one seed bit, the rng_seed of every
\* tracked cycle is as long as the number of slots of the cycle settled so
\* far (genesis and interpolated slots included), and it is
\* periods_per_cycle * thread_count long exactly when the cycle is complete.
C6_SeedBitAccounting ==
    (AtRest /\ one_bit) =>
        \A i \in 1..Len(cycle_history_cache) :
            /\ rng_seed_key(cycle_history_cache[i][1]) \in DOMAIN db.store
            /\ Len(db.store[rng_seed_key(cycle_history_cache[i][1])])
                  = SlotsSettledIn(cycle_history_cache[i][1])
            /\ (Len(db.store[rng_seed_key(cycle_history_cache[i][1])])
                    = periods_per_cycle * thread_count) <=> cycle_history_cache[i][2]

\* C7: no cycle of the store holds a roll count of 0.
C7_NoZeroRollCount ==
    \A k \in RollKeys(db.store) : db.store[k] # 0

\* C8: after every finalize no stored deferred credit has the amount 0.
C8_NoZeroCreditAfterFinalize ==
    FinalizedOk => \A k \in CreditKeys(db.store) : db.store[k] # 0

LookbackErrors(draw_cycle) ==
    {<<IF c \in Tracked THEN "CycleUnfinished" ELSE "CycleUnavailable", c>> :
        c \in {x \in {draw_cycle - 3, draw_cycle - 2} : x >= 0 /\ x \notin TrackedComplete}}

\* C10: feed_selector(draw_cycle) fails with CycleUnfinished(c) when a
\* lookback cycle c is tracked but not complete and with CycleUnavailable(c)
\* when c is not tracked; the selector then receives no feed_cycle call.
C10_FeedSelectorErrors ==
    (last.op = "feed_selector" /\ LookbackErrors(last.arg) # {}) =>
        /\ last.result \in LookbackErrors(last.arg)
        /\ last.feeds = <<>>

\* the same in the states whose history is the one of the store, which leaves
\* out the states after a reset (see C25)
C10_WhereHistoryIsStored ==
    (last.op = "feed_selector" /\ LookbackErrors(last.arg) # {}
     /\ Tracked \subseteq StoredCycles(db.store)) =>
        /\ last.result \in LookbackErrors(last.arg)
        /\ last.feeds = <<>>

C10_Witness ==
    /\ last.op = "feed_selector"
    /\ last.result = <<"CycleUnfinished", last.arg - 2>>
    /\ last.arg >= 3
    /\ last.arg - 3 \in TrackedComplete

\* C11: a feed of the selector for a draw cycle below 3 carries the initial
\* rolls; for draw cycles 0 and 1 the seed is H(H(initial_seed_string)) and
\* H(initial_seed_string); for draw cycle 2 the seed is
\* H(varint(0) || rng_seed(0) || initial ledger hash); a call of feed_selector
\* for such a draw cycle looks at no cycle below 0.
C11_InitialLookback ==
    /\ \A i \in 1..Len(last.feeds) :
          last.feeds[i].draw_cycle < 3 =>
              /\ last.feeds[i].lookback_rolls = initial_rolls
              /\ last.feeds[i].draw_cycle = 0 =>
                    last.feeds[i].lookback_seed
                        = compute_from(compute_from(initial_seed_string))
              /\ last.feeds[i].draw_cycle = 1 =>
                    last.feeds[i].lookback_seed = compute_from(initial_seed_string)
              /\ last.feeds[i].draw_cycle = 2 =>
                    last.feeds[i].lookback_seed
                        = compute_from(<<0, into_vec(db.store[rng_seed_key(0)]),
                                         initial_ledger_hash>>)
    /\ (last.op = "feed_selector" /\ last.arg < 3) =>
          /\ last.result[2] >= 0
          /\ last.arg < 2 => last.result = <<"Ok", last.arg>>

C11_Witness ==
    /\ \A c \in 0..2 : \E i \in 1..Len(last.feeds) : last.feeds[i].draw_cycle = c
    /\ \E j \in 1..Len(db.store[rng_seed_key(0)]) : db.store[rng_seed_key(0)][j]

\* C12: every complete cycle of the history has its
\* final_state_hash_snapshot set; when a cycle becomes complete the value is
\* the hash of the store read after the last commit of the operation that
\* completed it (the version just before the snapshot itself was written),
\* and it does not change while the cycle stays complete.
C12_SnapshotOfCompleteCycles ==
    /\ [](\A c \in TrackedComplete :
            /\ final_state_hash_snapshot_key(c) \in DOMAIN db.store
            /\ db.store[final_state_hash_snapshot_key(c)] # None)
    /\ [][\A c \in TrackedComplete' :
            IF c \in TrackedComplete
            THEN db'.store[final_state_hash_snapshot_key(c)]
                    = db.store[final_state_hash_snapshot_key(c)]
            ELSE db'.store[final_state_hash_snapshot_key(c)]
                    = <<get_db_hash([hash |-> db'.hash - 1])>>]_vars

C12_Witness ==
    /\ Cardinality(TrackedComplete) >= 2
    /\ \A c \in TrackedComplete : \A e \in TrackedComplete :
          c # e => db.store[final_state_hash_snapshot_key(c)]
                      # db.store[final_state_hash_snapshot_key(e)]

\* the same in the states whose history is the one of the store, which leaves
\* out the states after a reset (see C25)
C12_WhereHistoryIsStored ==
    Tracked \subseteq StoredCycles(db.store) =>
        \A c \in TrackedComplete :
            /\ final_state_hash_snapshot_key(c) \in DOMAIN db.store
            /\ db.store[final_state_hash_snapshot_key(c)] # None

\* a cycle that is complete in the history, or that was complete in the
\* snapshot and is popped by the recovery until it is created again
ObservedComplete(c) ==
    \/ c \in TrackedComplete
    \/ /\ interp.phase \in {"single", "first"}
       /\ interp.info.cycle = c
       /\ interp.info.complete

\* removed by the sliding window: older than the front of the history
SlidOut(c) == cycle_history_cache # <<>> /\ c < cycle_history_cache[1][1]

\* C13: a cycle that is complete stays complete in every later step of
\* finalize and of the interpolation, until the sliding window of the history
\* removes it; it never becomes incomplete or absent in another way.
C13_CompletenessMonotone ==
    [][\A c \in 0..(get_cycle(<<MaxPeriod + 1, 0>>) + 1) :
            ObservedComplete(c) => (ObservedComplete(c)' \/ SlidOut(c)')]_vars

\* C14: the writes of one finalize are atomic: when the process stops at any
\* point of a finalize, the store holds either nothing of the call or all of
\* it (the batch of the slot with its change-id, with or without the snapshot
\* hash fed after it).
C14_FinalizeAtomic ==
    [][last'.op = "finalize_crash" =>
        LET Atomic(w) ==
                \/ db' = db
                \/ Len(w) = 4 /\ db' \in {w[3], w[4]}
        IN  Atomic(finalize_writes(db, cycle_history_cache, last'.arg, last'.changes))]_vars

\* the entries the changes of a slot put in the store
SlotEntries(slot, changes) ==
    LedgerEntries(changes.ledger_changes)
    @@ CreditEntries(changes.pos_changes.deferred_credits)
    @@ RollEntries(get_cycle(slot), changes.pos_changes.roll_changes)
    @@ StatsEntries(get_cycle(slot), changes.pos_changes.production_stats)

\* the version d of the store shows the given keys with these values
Shows(d, entries, keys) ==
    \A k \in keys : k \in DOMAIN d.store /\ d.store[k] = entries[k]

C16_BackupTrigger ==
    FinalizeCalled =>
        last.backup =
            IF /\ last.result[1] = "Ok"
               /\ last.arg[2] = 0
               /\ last.arg[1] > 0
               /\ last.arg[1] % PERIODS_BETWEEN_BACKUPS = 0
            THEN <<[slot |-> last.arg, change_id |-> last.arg,
                    hash |-> get_db_hash([hash |-> db.hash - 1])]>>
            ELSE <<>>

C16_Witness ==
    /\ FinalizedOk
    /\ last.backup # <<>>
    /\ ~is_first_of_cycle(last.arg)

\* C17: the hash scheme of a finalize depends on the slot and on the MIP
\* store only: only_use_xor is true exactly for the slots from the one at
\* whose timestamp version 1 of FinalStateHashKind becomes active, whatever
\* the wall clock of the node.
C17_HashKindBySlot ==
    (FinalizeCalled /\ last.result[1] = "Ok") =>
        last.only_use_xor = <<~SlotLess(last.arg, HashKindSwitchSlot)>>

C17_Witness ==
    /\ FinalizedOk
    /\ last.only_use_xor = <<TRUE>>
    /\ last.now < get_block_slot_timestamp(HashKindSwitchSlot)

\* n empty seed bits
Falses(n) == [i \in 1..n |-> FALSE]

slots_per_cycle == periods_per_cycle * thread_count

\* cycle c is tracked in the history and stored with this flag, these roll
\* counts, these production stats and this seed; a complete cycle has its
\* snapshot hash set
CycleIs(d, cache, c, complete, rolls, stats, seed) ==
    /\ get_cycle_index(cache, c) # -1
    /\ cycle_history_cache_flag(cache, get_cycle_index(cache, c)) = complete
    /\ is_cycle_complete(d.store, c) = complete
    /\ get_all_roll_counts(d.store, c) = rolls
    /\ get_all_production_stats(d.store, c) = stats
    /\ rng_seed_key(c) \in DOMAIN d.store
    /\ d.store[rng_seed_key(c)] = seed
    /\ complete => /\ final_state_hash_snapshot_key(c) \in DOMAIN d.store
                   /\ d.store[final_state_hash_snapshot_key(c)] # None

\* the selector was fed for draw cycle dc
FedFor(feeds, dc) == \E i \in 1..Len(feeds) : feeds[i].draw_cycle = dc

\* a step of interpolate_multiple_cycles: the snapshot slot and end_slot lie
\* in different cycles
MultiCycleStep ==
    \/ interp.phase \in {"first", "middle", "last"}
    \/ /\ interp.phase = "pop"
       /\ get_cycle(interp.current_slot) # get_cycle(interp.end_slot)

\* what each step of interpolate_multiple_cycles leaves behind
MultiCycleStepDone ==
    /\ status' = "running"
    /\ interp.phase = "first" =>
          /\ CycleIs(db', cycle_history_cache', interp.cycle, TRUE,
                     interp.info.roll_counts, interp.info.production_stats,
                     interp.info.rng_seed
                         \o Falses(slots_per_cycle - Len(interp.info.rng_seed)))
          /\ FedFor(last'.feeds, interp.cycle + 2)
    /\ interp.phase = "middle" =>
          /\ CycleIs(db', cycle_history_cache', interp.cycle, TRUE,
                     interp.info.roll_counts, interp.info.production_stats,
                     Falses(slots_per_cycle))
          /\ FedFor(last'.feeds, interp.cycle + 2)
    /\ interp.phase = "last" =>
          /\ CycleIs(db', cycle_history_cache', interp.cycle,
                     is_last_of_cycle(interp.end_slot),
                     interp.info.roll_counts, interp.info.production_stats,
                     Falses(slots_since(interp.end_slot,
                                        new_first_of_cycle(interp.cycle)) + 1))
          /\ is_last_of_cycle(interp.end_slot) => FedFor(last'.feeds, interp.cycle + 2)
          /\ cycle_history_cache'[Len(cycle_history_cache')][1] = interp.cycle
          /\ \A c \in get_cycle(interp.current_slot)..(interp.cycle - 1) :
                \/ \E i \in 1..Len(cycle_history_cache') :
                        cycle_history_cache'[i] = <<c, TRUE>>
                \/ c < cycle_history_cache'[1][1]

\* C18: when the snapshot slot and end_slot lie in different cycles (and every
\* finalized slot gave one seed bit), interpolate_downtime goes through: the
\* snapshot's cycle and every cycle before cycle(end_slot) are left complete,
\* with the roll counts and production stats of the popped cycle, a seed
\* padded with empty bits to slots_per_cycle, the snapshot hash fed and the
\* selector fed for cycle+2; cycle(end_slot) holds the slots up to end_slot
\* and is complete iff end_slot is the last slot of its cycle.
C18_MultiCycleInterpolation ==
    [][(MultiCycleStep /\ one_bit) => MultiCycleStepDone]_vars

\* the same, for the runs in which no step of the interpolation panics
C18_UnlessPanic ==
    [][(MultiCycleStep /\ one_bit) => (MultiCycleStepDone \/ status' = "panicked")]_vars

\* a step of interpolate_single_cycle: the snapshot slot and end_slot lie in
\* the same cycle
SingleCycleStep ==
    \/ interp.phase = "single"
    \/ /\ interp.phase = "pop"
       /\ get_cycle(interp.current_slot) = get_cycle(interp.end_slot)

\* what each step of interpolate_single_cycle leaves behind; at the rebuild
\* the history is the one of the snapshot without its popped last cycle
SingleCycleStepDone ==
    /\ status' = "running"
    /\ interp.phase = "single" =>
          /\ cycle_history_cache' =
                Append(cycle_history_cache,
                       <<interp.info.cycle, is_last_of_cycle(interp.end_slot)>>)
          /\ CycleIs(db', cycle_history_cache', interp.info.cycle,
                     is_last_of_cycle(interp.end_slot),
                     interp.info.roll_counts, interp.info.production_stats,
                     interp.info.rng_seed
                         \o Falses(slots_since(interp.end_slot, interp.current_slot)))

\* C19: when the snapshot slot and end_slot are in the same cycle,
\* interpolate_downtime goes through and replaces the last cycle of the
\* history by one cycle with the same number, the same roll counts and
\* production stats, the previous seed bits followed by one empty bit per slot
\* from next_slot(current) to end_slot, and complete = is_last_of_cycle(end_slot);
\* the number of tracked cycles is unchanged.
C19_SingleCycleInterpolation ==
    [][SingleCycleStep => SingleCycleStepDone]_vars

\* the same, for the runs in which no step of the interpolation panics
C19_UnlessPanic ==
    [][SingleCycleStep => (SingleCycleStepDone \/ status' = "panicked")]_vars

\* the last step of interpolate_downtime, with new_derived_from_snapshot
\* returning Ok
RestartSucceeds == interp.phase \in {"single", "last"} /\ status' = "running"

\* new_derived_from_snapshot has returned Ok and nothing was called since
Restarted ==
    /\ last.op \in {"interpolate_single_cycle", "interpolate_last_cycle"}
    /\ status = "running"

\* C20: after new_derived_from_snapshot succeeds the change-id of the store is
\* end_slot = (last_start_period, thread_count-1), last_slot_before_downtime is
\* the slot of the snapshot, the snapshot hash of the end cycle is the hash the
\* store had when the interpolation was written, and the only slot a following
\* finalize accepts is (last_start_period+1, 0).
C20_AfterRestart ==
    /\ [][RestartSucceeds =>
            /\ db'.change_id = <<last_start_period', thread_count - 1>>
            /\ db'.change_id = interp.end_slot
            /\ last_slot_before_downtime' = interp.current_slot
            /\ final_state_hash_snapshot_key(get_cycle(db'.change_id)) \in DOMAIN db'.store
            /\ db'.store[final_state_hash_snapshot_key(get_cycle(db'.change_id))]
                    = <<get_db_hash([hash |-> db'.hash - 1])>>]_vars
    /\ [][(Restarted /\ last'.op = "finalize") =>
            (last'.result[1] # "panic_slot" <=> last'.arg = <<last_start_period + 1, 0>>)]_vars

\* a restart over several cycles has succeeded, from a snapshot taken after genesis
C20_Witness ==
    /\ Restarted
    /\ last.op = "interpolate_last_cycle"
    /\ last_slot_before_downtime[1] > 0
    /\ db.change_id = <<last_start_period, thread_count - 1>>

\* a step of the interpolation in which feed_selector returns an error
RecoveryFeedFails ==
    /\ interp.phase \in {"first", "middle", "last"}
    /\ status' = "failed"
    /\ last'.result[1] = "PosError"

\* C21: when feed_selector returns an error while the downtime is
\* interpolated, the recovery fails and nothing of it is committed: the store
\* holds exactly the keys, the values and the change-id of the snapshot.
C21_NoPartialRecovery ==
    [][RecoveryFeedFails =>
            /\ db'.store = interp.snapshot.store
            /\ db'.change_id = interp.snapshot.change_id]_vars

CycleView(store, c) ==
    [complete |-> is_cycle_complete(store, c),
     roll_counts |-> get_all_roll_counts(store, c),
     production_stats |-> get_all_production_stats(store, c),
     rng_seed |-> IF rng_seed_key(c) \in DOMAIN store THEN <<store[rng_seed_key(c)]>>
                  ELSE <<>>]

\* the stored cycle history
HistoryView(store) == [c \in StoredCycles(store) |-> CycleView(store, c)]

\* the number of slots of cycle c after slot s and up to slot e
SlotsWithin(c, s, e) ==
    Cardinality({x \in (c * periods_per_cycle..(c * periods_per_cycle + periods_per_cycle - 1))
                        \X (0..(thread_count - 1)) :
                    SlotLess(s, x) /\ ~SlotLess(e, x)})

\* the newest cycle_history_length cycles of a history
NewestCycles(view) ==
    [c \in {x \in DOMAIN view :
                Cardinality({y \in DOMAIN view : y > x}) < cycle_history_length} |-> view[c]]

\* the reference node: it stopped at the snapshot and restarts at slot e, the
\* cycle of the snapshot slot and every cycle up to the one of e holding the
\* rolls and the stats of the cycle the node stopped in and one empty seed
\* bit per slot of the downtime, all of them complete but the one of e, which
\* is complete iff e is its last slot
ReferenceRestart(snapshot, e) ==
    LET s == snapshot.change_id
        first == get_cycle(s)
        info == CycleView(snapshot.store, first)
        Older == {c \in StoredCycles(snapshot.store) : c < first}
    IN  NewestCycles(
            [c \in Older \cup (first..get_cycle(e)) |->
                IF c < first THEN CycleView(snapshot.store, c)
                ELSE [complete |-> c < get_cycle(e) \/ is_last_of_cycle(e),
                      roll_counts |-> info.roll_counts,
                      production_stats |-> info.production_stats,
                      rng_seed |-> <<(IF c = first THEN info.rng_seed[1] ELSE <<>>)
                                        \o Falses(SlotsWithin(c, s, e))>>]])

\* the reference node after a finalize of the slot after e that changes
\* nothing: a first slot of a cycle opens that cycle, with the rolls of the
\* cycle before, no stats and no seed bit
ReferenceNoop(view, e) ==
    LET p == e[1] + 1
        c == p \div periods_per_cycle
    IN  IF p % periods_per_cycle # 0 THEN view
        ELSE NewestCycles(
                [x \in DOMAIN view \cup {c} |->
                    IF x # c THEN view[x]
                    ELSE [complete |-> FALSE, roll_counts |-> view[c - 1].roll_counts,
                          production_stats |-> EmptyFn, rng_seed |-> <<<<>>>>]])

NoopChanges ==
    [pos_changes |-> PoSChanges(<<>>, EmptyFn, EmptyFn, EmptyFn), ledger_changes |-> EmptyFn]

\* the finalize, with no change, of the slot after the end slot of a restart
\* that has just succeeded
NoopAfterRestart ==
    /\ Restarted
    /\ last'.op = "finalize"
    /\ last'.arg = <<last_start_period + 1, 0>>
    /\ last'.changes = NoopChanges

\* C23: a restart from a snapshot at slot s to the end slot e followed by a
\* finalize of next_slot(e) with no change leaves the stored cycle history
\* (flags, roll counts, production stats and seeds of the tracked cycles)
\* that the reference node has: stopped at s, restarted at e with every cycle
\* of the downtime complete with the rolls it had before the downtime, and
\* then finalizing the same slot.
C23_InterpolationFidelity ==
    [][NoopAfterRestart =>
            /\ last'.result[1] = "Ok"
            /\ HistoryView(db'.store)
                  = ReferenceNoop(ReferenceRestart(last.changes.snapshot, db.change_id),
                                  db.change_id)]_vars

\* the same up to the end of the restart, before the finalize
C23_UpToRestart ==
    Restarted =>
        HistoryView(db.store) = ReferenceRestart(last.changes.snapshot, db.change_id)

PoSKeys(store) ==
    {k \in DOMAIN store : k[1] \in {CYCLE_HISTORY_PREFIX, DEFERRED_CREDITS_PREFIX}}

LedgerPart(store) == Restrict(store, {k \in DOMAIN store : k[1] = LEDGER_PREFIX})

\* a call of FinalState::new on the database of a node
NewCalled(reset_final_state) ==
    /\ last'.op = "new_final_state"
    /\ last'.arg = reset_final_state

C25_ResetClearsAll ==
    [][last'.op = "reset" =>
            /\ db'.change_id = <<0, thread_count - 1>>
            /\ StoredCycles(db'.store) = {}
            /\ CreditKeys(db'.store) = {}
            /\ cycle_history_cache' = <<>>]_vars

\* what FinalState::reset does clear: the store and its change-id
C25_StoreCleared ==
    [][last'.op = "reset" =>
            /\ db'.change_id = <<0, thread_count - 1>>
            /\ DOMAIN db'.store = {}]_vars

----------------------------------------------------------------------------
(* compute_initial_draws on the histories a node can hold when it starts:  *)
(* consecutive cycles from any first cycle, every one complete with its    *)
(* state hash, the last one complete or not.                               *)

\* the highest first cycle of a history
MaxFirstCycle == 3

HistoryRolls == {initial_rolls, [a \in Addresses |-> 2], [a \in {"B"} |-> 3]}

RECURSIVE TrackedHistory(_, _, _, _, _)
TrackedHistory(h, cycle, n, last_complete, rolls) ==
    IF n = 0 THEN h
    ELSE LET complete == n > 1 \/ last_complete
             info == [CycleInfo(cycle, complete, rolls,
                                IF complete THEN Falses(slots_per_cycle) ELSE <<FALSE>>,
                                EmptyFn)
                        EXCEPT !.final_state_hash_snapshot =
                                  IF complete THEN <<get_db_hash(h.db)>> ELSE None]
         IN  TrackedHistory(put_new_cycle_info(h.db, h.cache, info),
                            cycle + 1, n - 1, last_complete, rolls)

InitDraws ==
    /\ \E first \in 0..MaxFirstCycle, n \in 0..cycle_history_length,
          last_complete \in BOOLEAN, rolls \in HistoryRolls :
          LET Loaded(h) ==
                  /\ db = h.db
                  /\ cycle_history_cache = h.cache
          IN  Loaded(TrackedHistory(
                        [db |-> [store |-> EmptyFn, change_id |-> <<0, thread_count - 1>>,
                                 hash |-> 0],
                         cache |-> <<>>],
                        first, n, last_complete, rolls))
    /\ last_start_period = 0
    /\ last_slot_before_downtime = None
    /\ status = "running"
    /\ interp = Idle
    /\ last = Call("new", None, None, <<"Ok", 0>>, <<>>)
    /\ restarts = 0
    /\ one_bit = TRUE
    /\ grid = NodeGrid

\* PoSFinalState::compute_initial_draws, as a node calls it when it starts
ComputeInitialDraws ==
    /\ status = "running"
    /\ interp.phase = "idle"
    /\ \E drawn \in BOOLEAN :
        LET Done(r) ==
                /\ status' = StepStatus(r.result)
                /\ last' = Call("compute_initial_draws", drawn, [waits |-> r.waits],
                                r.result, r.feeds)
        IN  Done(compute_initial_draws(db.store, cycle_history_cache, drawn))
    /\ UNCHANGED <<grid, db, cycle_history_cache, last_start_period,
                   last_slot_before_downtime, interp, restarts, one_bit>>

NextDraws == ComputeInitialDraws

SpecDraws == InitDraws /\ [][NextDraws]_vars

HistoryStartsLate == cycle_history_cache # <<>> /\ cycle_history_cache[1][1] > 0

\* the entries of the history up to the first incomplete one
CompletePrefix ==
    {i \in 1..Len(cycle_history_cache) : \A j \in 1..i : cycle_history_cache[j][2]}

\* the draw cycles the selector is to be fed with
ExpectedDrawCycles ==
    (IF HistoryStartsLate THEN {} ELSE {0, 1})
    \cup {cycle_history_cache[i][1] + 2 :
            i \in {j \in CompletePrefix : ~(HistoryStartsLate /\ j = 1)}}

FedCycles(feeds) == [i \in 1..Len(feeds) |-> feeds[i].draw_cycle]

\* C26: compute_initial_draws feeds the draw cycles 0 and 1 unless the
\* history starts after cycle 0, then cycle + 2 for every complete cycle of
\* the history up to the first incomplete one, without the first entry when
\* the history starts late, in increasing order; it then waits for the draws
\* of the highest cycle fed and succeeds only when the selector confirms them.
C26_InitialDraws ==
    [][(last'.op = "compute_initial_draws" /\ last'.result[1] \in {"Ok", "ChannelDown"})
        => LET fed == FedCycles(last'.feeds)
           IN  /\ {fed[i] : i \in 1..Len(fed)} = ExpectedDrawCycles
               /\ \A i \in 1..(Len(fed) - 1) : fed[i] < fed[i + 1]
               /\ last'.changes.waits =
                     IF fed = <<>> THEN <<>> ELSE <<fed[Len(fed)]>>
               /\ \A i \in 1..Len(fed) :
                     last'.changes.waits # <<>> /\ fed[i] <= last'.changes.waits[1]
               /\ last'.result[1] = "Ok" <=> (last'.changes.waits = <<>> \/ last'.arg)]_vars

\* a history that starts late, with an incomplete last cycle
C26_Witness ==
    /\ last.op = "compute_initial_draws"
    /\ last.result[1] = "Ok"
    /\ HistoryStartsLate
    /\ Len(cycle_history_cache) = cycle_history_length
    /\ ~Back[2]
    /\ FedCycles(last.feeds) = <<cycle_history_cache[2][1] + 2>>
    /\ last.changes.waits = <<cycle_history_cache[2][1] + 2>>

----------------------------------------------------------------------------
(* Slot and time arithmetic (consensus/src/timeslots.rs).  UTime and the   *)
(* period are u64, modelled at a width of U64Bits bits; the thread and the *)
(* thread count are u8.                                                    *)

U64Bits == 14
U64Max == 2^U64Bits - 1
U8Max == 255

\* the number of slot moves of one exploration
MaxSteps == 2

Ok(v) == <<"Ok", v>>
Err(e) == <<"Err", e>>
IsOk(r) == r[1] = "Ok"

\* checked arithmetic of u64 and UTime: an error instead of a wrapped value
checked_add(a, b) == IF a + b > U64Max THEN Err("overflow") ELSE Ok(a + b)

checked_mul(a, b) == IF a * b > U64Max THEN Err("overflow") ELSE Ok(a * b)

checked_sub(a, b) == IF a < b THEN Err("underflow") ELSE Ok(a - b)

checked_div_u64(a, n) == IF n = 0 THEN Err("division by zero") ELSE Ok(a \div n)

\* u8::checked_add
checked_add_u8(a, b) == IF a + b > U8Max THEN Err("overflow") ELSE Ok(a + b)

\* a timestamp without the term of the thread
TimestampOfPeriod(threads, t0_millis, genesis, slot) ==
    LET shift == checked_mul(t0_millis, slot[1])
        total == IF IsOk(shift) THEN checked_add(genesis, shift[2]) ELSE shift
    IN  IF IsOk(total) THEN total ELSE Err("TimeOverflowError")

\* get_block_slot_timestamp with its four arguments and its Result
get_block_slot_timestamp_result(threads, t0_millis, genesis, slot) ==
    LET per_thread == checked_div_u64(t0_millis, threads)
        base == IF IsOk(per_thread) THEN checked_mul(per_thread[2], slot[2]) ELSE per_thread
        shift == checked_mul(t0_millis, slot[1])
        with_base == IF IsOk(base) THEN checked_add(genesis, base[2]) ELSE base
        total == IF IsOk(with_base) /\ IsOk(shift)
                 THEN checked_add(with_base[2], shift[2])
                 ELSE Err("overflow")
    IN  IF IsOk(total) THEN total ELSE Err("TimeOverflowError")

\* a next slot that moves two periods at the wrap
NextSkipsPeriod(threads, slot) ==
    IF slot[2] = threads - 1
    THEN LET period == checked_add(slot[1], 2)
         IN  IF IsOk(period) THEN Ok(<<period[2], 0>>) ELSE Err("SlotOverflowError")
    ELSE LET thread == checked_add_u8(slot[2], 1)
         IN  IF IsOk(thread) THEN Ok(<<slot[1], thread[2]>>) ELSE Err("ThreadOverflowError")

\* a next slot that wraps one thread late
NextWrapsLate(threads, slot) ==
    IF slot[2] = threads
    THEN LET period == checked_add(slot[1], 1)
         IN  IF IsOk(period) THEN Ok(<<period[2], 0>>) ELSE Err("SlotOverflowError")
    ELSE LET thread == checked_add_u8(slot[2], 1)
         IN  IF IsOk(thread) THEN Ok(<<slot[1], thread[2]>>) ELSE Err("ThreadOverflowError")

\* a next slot whose period stays at the maximum
NextClampsPeriod(threads, slot) ==
    IF slot[2] = threads - 1
    THEN Ok(<<IF slot[1] = U64Max THEN U64Max ELSE slot[1] + 1, 0>>)
    ELSE LET thread == checked_add_u8(slot[2], 1)
         IN  IF IsOk(thread) THEN Ok(<<slot[1], thread[2]>>) ELSE Err("ThreadOverflowError")

get_next_block_slot(threads, slot) ==
    IF slot[2] = threads - 1
    THEN LET period == checked_add(slot[1], 1)
         IN  IF IsOk(period) THEN Ok(<<period[2], 0>>) ELSE Err("SlotOverflowError")
    ELSE LET thread == checked_add_u8(slot[2], 1)
         IN  IF IsOk(thread) THEN Ok(<<slot[1], thread[2]>>) ELSE Err("ThreadOverflowError")

\* Slot::get_prev_slot with the thread count as an argument
prev_slot(threads, slot) ==
    IF slot[2] > 0 THEN Ok(<<slot[1], slot[2] - 1>>)
    ELSE LET period == checked_sub(slot[1], 1)
         IN  IF IsOk(period) THEN Ok(<<period[2], threads - 1>>)
             ELSE Err("PeriodOverflowError")

\* UTime::checked_rem_time and UTime::checked_div_time: an error on a zero divisor
checked_rem_time(a, b) == IF b = 0 THEN Err("division by zero") ELSE Ok(a % b)

checked_div_time(a, b) == IF b = 0 THEN Err("division by zero") ELSE Ok(a \div b)

\* the cast "as u8" of a u64
as_u8(n) == n % (U8Max + 1)

\* a latest slot that is always on thread 0
LatestSlotOfPeriod(threads, t0_millis, genesis, now) ==
    LET time_since_genesis == checked_sub(now, genesis)
        period == checked_div_time(time_since_genesis[2], t0_millis)
    IN  IF ~IsOk(time_since_genesis) THEN Ok(None)
        ELSE IF ~IsOk(period) THEN Err("TimeError")
        ELSE Ok(<<<<period[2], 0>>>>)

\* get_current_latest_block_slot, now being the wall clock UTime::now();
\* the result is Ok(None), Ok(<<slot>>) or an error
get_current_latest_block_slot(threads, t0_millis, genesis, now) ==
    LET time_since_genesis == checked_sub(now, genesis)
        rem == checked_rem_time(time_since_genesis[2], t0_millis)
        per_thread == checked_div_u64(t0_millis, threads)
        thread == IF IsOk(rem) /\ IsOk(per_thread)
                  THEN checked_div_time(rem[2], per_thread[2])
                  ELSE Err("division by zero")
        period == checked_div_time(time_since_genesis[2], t0_millis)
    IN  IF ~IsOk(time_since_genesis) THEN Ok(None)
        ELSE IF ~IsOk(thread) \/ ~IsOk(period) THEN Err("TimeError")
        ELSE Ok(<<<<period[2], as_u8(thread[2])>>>>)

(* The grids and slots of the exploration *)

GridThreadCounts == {1, 2, thread_count, U8Max}
GridT0s == {1, 2, t0, 2 * U8Max, 2000, U64Max}
GridGenesis == {0, 10000, U64Max - 1}
GridPeriods == {0, 1, 2, U64Max - 1, U64Max}
GridThreads == {0, 1, 2, U8Max - 1, U8Max}

GridSlots == GridPeriods \X GridThreads

GridTimestamp(g, slot) ==
    get_block_slot_timestamp_result(g.thread_count, g.t0, g.genesis_timestamp, slot)

InitTime ==
    /\ db = InitDb.db
    /\ cycle_history_cache = InitDb.cache
    /\ last_start_period = 0
    /\ last_slot_before_downtime = None
    /\ status = "running"
    /\ interp = Idle
    /\ last = Call("new", None, None, <<"Ok", 0>>, <<>>)
    /\ restarts = 0
    /\ one_bit = TRUE
    /\ \E threads \in GridThreadCounts, t0_millis \in GridT0s, genesis \in GridGenesis,
          slot \in GridSlots, other \in GridSlots :
            grid = [thread_count |-> threads, t0 |-> t0_millis, genesis_timestamp |-> genesis,
                    slot |-> slot, other |-> other, steps |-> 0, out |-> [op |-> "none"]]

\* get_block_slot_timestamp for the two slots of the grid
SlotTimestamp ==
    /\ grid.out.op # "get_block_slot_timestamp"
    /\ grid' = [grid EXCEPT !.out = [op |-> "get_block_slot_timestamp",
                                      result |-> GridTimestamp(grid, grid.slot),
                                      other |-> GridTimestamp(grid, grid.other)]]
    /\ UNCHANGED final_state_vars

\* get_next_block_slot, the grid moving to the slot when there is one
NextBlockSlot ==
    /\ grid.steps < MaxSteps
    /\ LET Moved(r) ==
               grid' = [grid EXCEPT !.out = [op |-> "get_next_block_slot", arg |-> grid.slot,
                                             result |-> r],
                                    !.slot = IF IsOk(r) THEN r[2] ELSE @,
                                    !.steps = @ + 1]
       IN  Moved(get_next_block_slot(grid.thread_count, grid.slot))
    /\ UNCHANGED final_state_vars

\* Slot::get_prev_slot, the grid moving to the slot when there is one
PrevSlot ==
    /\ grid.steps < MaxSteps
    /\ LET Moved(r) ==
               grid' = [grid EXCEPT !.out = [op |-> "get_prev_slot", arg |-> grid.slot,
                                             result |-> r],
                                    !.slot = IF IsOk(r) THEN r[2] ELSE @,
                                    !.steps = @ + 1]
       IN  Moved(prev_slot(grid.thread_count, grid.slot))
    /\ UNCHANGED final_state_vars

\* get_current_latest_block_slot at a wall-clock time, the clock being read
\* before any other slot computation
CurrentLatestBlockSlot ==
    /\ grid.out.op = "none"
    /\ \E now \in {0, 9999, 10000, 10999, 15999, U64Max} :
          grid' = [grid EXCEPT !.out =
                      [op |-> "get_current_latest_block_slot", now |-> now,
                       result |-> get_current_latest_block_slot(
                                      grid.thread_count, grid.t0, grid.genesis_timestamp, now)]]
    /\ UNCHANGED final_state_vars

NextTime ==
    \/ SlotTimestamp
    \/ NextBlockSlot
    \/ PrevSlot
    \/ CurrentLatestBlockSlot

SpecTime == InitTime /\ [][NextTime]_vars

----------------------------------------------------------------------------
(* Claims on the slot and time arithmetic, under SpecTime *)

\* the precondition of the time grid: T >= 1, t0 >= 1 and t0 a multiple of T
GridValid ==
    /\ grid.thread_count >= 1
    /\ grid.t0 >= 1
    /\ grid.t0 % grid.thread_count = 0

ValidSlot(slot) == slot[2] < grid.thread_count

\* the timestamp of a slot in unbounded arithmetic
StampOf(slot) ==
    grid.genesis_timestamp + (grid.t0 \div grid.thread_count) * slot[2] + grid.t0 * slot[1]

TimestampCalled == grid.out.op = "get_block_slot_timestamp"

ExampleGrid ==
    grid.thread_count = 2 /\ grid.t0 = 2000 /\ grid.genesis_timestamp = 10000

\* C27: on a grid with T >= 1, t0 >= 1 and t0 mod T = 0 the timestamp of a
\* slot is genesis + (t0 / T) * thread + t0 * period whenever that value fits;
\* with T = 2, t0 = 2000 and genesis 10000 the slots (0,0), (0,1), (1,0) and
\* (2,1) are at 10000, 11000, 12000 and 15000.
C27_SlotTimestamp ==
    (TimestampCalled /\ GridValid) =>
        /\ StampOf(grid.slot) <= U64Max => grid.out.result = Ok(StampOf(grid.slot))
        /\ ExampleGrid =>
              /\ grid.slot = <<0, 0>> => grid.out.result = Ok(10000)
              /\ grid.slot = <<0, 1>> => grid.out.result = Ok(11000)
              /\ grid.slot = <<1, 0>> => grid.out.result = Ok(12000)
              /\ grid.slot = <<2, 1>> => grid.out.result = Ok(15000)

C27_Witness ==
    /\ TimestampCalled
    /\ ExampleGrid
    /\ grid.slot = <<2, 1>>
    /\ grid.out.result = Ok(15000)

\* a step of get_next_block_slot from a slot of the grid that gave a slot
NextSlotStep ==
    /\ grid'.out.op = "get_next_block_slot"
    /\ grid'.out.arg = grid.slot
    /\ ValidSlot(grid.slot)
    /\ IsOk(grid'.out.result)

\* C28: on a valid grid the timestamp of the next slot of a slot with
\* thread < T is t0 / T later than the timestamp of the slot, also from thread
\* T - 1 to the next period, and of two slots the one that is later in the
\* (period, thread) order has the strictly later timestamp.
C28_TimestampSpacing ==
    /\ [][(NextSlotStep /\ GridValid
            /\ IsOk(GridTimestamp(grid, grid.slot)) /\ IsOk(GridTimestamp(grid, grid'.slot)))
            => GridTimestamp(grid, grid'.slot)[2] - GridTimestamp(grid, grid.slot)[2]
                  = grid.t0 \div grid.thread_count]_vars
    /\ []((TimestampCalled /\ GridValid /\ ValidSlot(grid.slot) /\ ValidSlot(grid.other)
            /\ SlotLess(grid.slot, grid.other)
            /\ IsOk(grid.out.result) /\ IsOk(grid.out.other))
            => grid.out.result[2] < grid.out.other[2])

\* the next slot across the wrap, both timestamps in range
C28_Witness ==
    /\ grid.out.op = "get_next_block_slot"
    /\ GridValid
    /\ grid.thread_count >= 2
    /\ grid.out.arg[2] = grid.thread_count - 1
    /\ IsOk(grid.out.result)
    /\ grid.slot = grid.out.result[2]
    /\ IsOk(GridTimestamp(grid, grid.out.arg))
    /\ IsOk(GridTimestamp(grid, grid.slot))

\* C29: the next slot of (p, t) is (p, t + 1) when t < T - 1 and (p + 1, 0)
\* when t = T - 1; the next slot of the previous slot of a slot is the slot,
\* whenever the previous slot exists; from a valid slot both give a slot with
\* thread < T (T = 2: next of (0,1) is (1,0), previous of (2,0) is (1,1)).
C29_NextAndPrevSlot ==
    [][/\ (grid'.out.op = "get_next_block_slot" /\ grid.thread_count >= 1
            /\ ValidSlot(grid.slot))
         => /\ grid.slot[2] < grid.thread_count - 1
                  => grid'.out.result = Ok(<<grid.slot[1], grid.slot[2] + 1>>)
            /\ (grid.slot[2] = grid.thread_count - 1 /\ grid.slot[1] < U64Max)
                  => grid'.out.result = Ok(<<grid.slot[1] + 1, 0>>)
            /\ IsOk(grid'.out.result) => ValidSlot(grid'.out.result[2])
            /\ (grid.thread_count = 2 /\ grid.slot = <<0, 1>>)
                  => grid'.out.result = Ok(<<1, 0>>)
       /\ (grid'.out.op = "get_prev_slot" /\ grid.thread_count >= 1
            /\ ValidSlot(grid.slot) /\ IsOk(grid'.out.result))
         => /\ get_next_block_slot(grid.thread_count, grid'.out.result[2]) = Ok(grid.slot)
            /\ ValidSlot(grid'.out.result[2])
            /\ (grid.thread_count = 2 /\ grid.slot = <<2, 0>>)
                  => grid'.out.result = Ok(<<1, 1>>)]_vars

\* the previous slot across the wrap
C29_Witness ==
    /\ grid.out.op = "get_prev_slot"
    /\ grid.thread_count = 2
    /\ grid.out.arg = <<2, 0>>
    /\ grid.out.result = Ok(<<1, 1>>)
    /\ grid.slot = <<1, 1>>

\* one of the operations of get_block_slot_timestamp leaves the range of u64
TimestampOverflows(slot) ==
    LET base == (grid.t0 \div grid.thread_count) * slot[2]
        shift == grid.t0 * slot[1]
    IN  \/ base > U64Max
        \/ shift > U64Max
        \/ grid.genesis_timestamp + base > U64Max
        \/ grid.genesis_timestamp + base + shift > U64Max

\* C30: an overflow of the slot and time arithmetic is an error, no value
\* wrapped or clamped: get_block_slot_timestamp is TimeOverflowError exactly
\* when a multiplication or an addition overflows, get_next_block_slot is
\* SlotOverflowError at the greatest period on thread T - 1 and
\* ThreadOverflowError when the thread cannot be incremented.
C30_OverflowIsAnError ==
    /\ (TimestampCalled /\ grid.thread_count >= 1) =>
          IF TimestampOverflows(grid.slot)
          THEN grid.out.result = Err("TimeOverflowError")
          ELSE grid.out.result = Ok(StampOf(grid.slot))
    /\ (grid.out.op = "get_next_block_slot" /\ grid.thread_count >= 1) =>
          IF grid.out.arg[2] = grid.thread_count - 1
          THEN IF grid.out.arg[1] = U64Max
               THEN grid.out.result = Err("SlotOverflowError")
               ELSE grid.out.result = Ok(<<grid.out.arg[1] + 1, 0>>)
          ELSE IF grid.out.arg[2] = U8Max
               THEN grid.out.result = Err("ThreadOverflowError")
               ELSE grid.out.result = Ok(<<grid.out.arg[1], grid.out.arg[2] + 1>>)

C30_Witness ==
    /\ grid.out.op = "get_next_block_slot"
    /\ grid.out.arg[1] = U64Max
    /\ grid.out.arg[2] = grid.thread_count - 1
    /\ grid.out.result = Err("SlotOverflowError")
    /\ grid.slot = grid.out.arg

LatestSlotCalled == grid.out.op = "get_current_latest_block_slot"

\* the slot after a slot, periods unbounded
SlotAfter(slot) ==
    IF slot[2] = grid.thread_count - 1 THEN <<slot[1] + 1, 0>> ELSE <<slot[1], slot[2] + 1>>

\* C31: on a valid grid the latest slot at a time before genesis is None, and
\* at a later time it is the slot of period (now - genesis) / t0 and thread
\* ((now - genesis) mod t0) / (t0 / T); its thread is below T and its
\* timestamp is not after now, while the timestamp of its next slot is.
C31_LatestSlot ==
    (LatestSlotCalled /\ GridValid) =>
        IF grid.out.now < grid.genesis_timestamp
        THEN grid.out.result = Ok(None)
        ELSE LET since == grid.out.now - grid.genesis_timestamp
                 s == <<since \div grid.t0,
                        (since % grid.t0) \div (grid.t0 \div grid.thread_count)>>
             IN  /\ grid.out.result = Ok(<<s>>)
                 /\ s[2] < grid.thread_count
                 /\ StampOf(s) <= grid.out.now
                 /\ grid.out.now < StampOf(SlotAfter(s))

C31_Witness ==
    /\ LatestSlotCalled
    /\ ExampleGrid
    /\ grid.out.now = 15999
    /\ grid.out.result = Ok(<<<<2, 1>>>>)

----------------------------------------------------------------------------
(* MassaDB with only_use_xor: the hash of the store is the XOR of the      *)
(* hashes H(k || v) of its entries.  A hash of an entry is a token of its  *)
(* own, so an XOR of hashes is the set of the tokens met an odd number of  *)
(* times and the XOR of two of them their symmetric difference.            *)

xor_hash(store) == {<<k, store[k]>> : k \in DOMAIN store}

\* the hash after a write: the entries the batch replaces or deletes are
\* taken out of it and the entries it puts are added
xor_write_batch(h, store, batch) ==
    LET Xor(a, b) == (a \ b) \cup (b \ a)
        replaced == {<<k, store[k]>> :
                        k \in (DOMAIN batch.put \cup batch.del) \cap DOMAIN store}
    IN  Xor(Xor(h, replaced), xor_hash(batch.put))

\* a step of finalize that committed the batch of its slot
FinalizeStep ==
    /\ last'.op = "finalize"
    /\ last'.result[1] = "Ok"
    /\ db'.change_id = last'.arg
    /\ db.change_id # db'.change_id

\* the composed hash after the batch of the slot, the proof of stake applied
\* to the batch before the ledger (the order of finalize)
HashPoSFirst(d, cache, slot, changes) ==
    LET r == apply_changes_to_batch(d, cache, changes.pos_changes, slot, TRUE, EmptyBatch)
    IN  xor_write_batch(xor_hash(r.db.store), r.db.store,
                        PutAll(r.batch, LedgerEntries(changes.ledger_changes)))

\* the same with the ledger applied to the batch before the proof of stake
HashLedgerFirst(d, cache, slot, changes) ==
    LET r == apply_changes_to_batch(d, cache, changes.pos_changes, slot, TRUE,
                 PutAll(EmptyBatch, LedgerEntries(changes.ledger_changes)))
    IN  xor_write_batch(xor_hash(r.db.store), r.db.store, r.batch)

\* the finalize changes a ledger entry whose stored balance is zero
LedgerChangeOfZero(d, changes) ==
    \E k \in DOMAIN LedgerEntries(changes.ledger_changes) :
        k \in DOMAIN d.store /\ AmountOf(k, d.store[k]) = 0

\* C32: with only_use_xor, the composed hash after the batch of a finalize
\* is the same whether the proof of stake or the ledger is applied to the
\* batch first.
C32_HashOrderIndependent ==
    [][(FinalizeStep /\ last'.only_use_xor = <<TRUE>>) =>
          HashPoSFirst(db, cycle_history_cache, last'.arg, last'.changes)
              = HashLedgerFirst(db, cycle_history_cache, last'.arg, last'.changes)]_vars

\* C32, where it fails: the two orders differ only when the ledger changes
\* an entry the zero sweep of the proof of stake deletes
C32_WhereOrderMatters ==
    [][(FinalizeStep /\ last'.only_use_xor = <<TRUE>>
            /\ ~LedgerChangeOfZero(db, last'.changes)) =>
          HashPoSFirst(db, cycle_history_cache, last'.arg, last'.changes)
              = HashLedgerFirst(db, cycle_history_cache, last'.arg, last'.changes)]_vars

\* C32: with only_use_xor the composed hash is the hash of the contents
\* the batch of the slot leaves
C32_HashOfContents ==
    [][(FinalizeStep /\ last'.only_use_xor = <<TRUE>>) =>
          HashPoSFirst(db, cycle_history_cache, last'.arg, last'.changes)
              = xor_hash(finalize_writes(db, cycle_history_cache, last'.arg,
                                         last'.changes)[3].store)]_vars

----------------------------------------------------------------------------
(* PoSFinalState::apply_changes_to_batch called on the history of a node:  *)
(* the history is one PoSFinalState::new loads, the slot is any slot and   *)
(* the batch is the batch of the caller, which may hold writes of another  *)
(* component.                                                              *)

\* the seed of an incomplete back cycle is as long as the slots finalized in
\* it: one slot, or every slot but the last
InitApply ==
    /\ \E first \in 0..MaxFirstCycle, n \in 0..cycle_history_length,
          last_complete \in BOOLEAN, len \in {1, slots_per_cycle - 1} :
          LET WithBackSeed(h, l) ==
                  IF h.cache # <<>> /\ ~h.cache[Len(h.cache)][2]
                  THEN [h EXCEPT !.db.store =
                          (rng_seed_key(h.cache[Len(h.cache)][1]) :> Falses(l))
                              @@ h.db.store]
                  ELSE h
              Loaded(h) ==
                  /\ db = h.db
                  /\ cycle_history_cache = h.cache
          IN  Loaded(WithBackSeed(TrackedHistory(
                        [db |-> [store |-> EmptyFn, change_id |-> <<0, thread_count - 1>>,
                                 hash |-> 0],
                         cache |-> <<>>],
                        first, n, last_complete, initial_rolls), len))
    /\ last_start_period = 0
    /\ last_slot_before_downtime = None
    /\ status = "running"
    /\ interp = Idle
    /\ last = Call("new", None, None, <<"Ok", 0>>, <<>>)
    /\ restarts = 0
    /\ one_bit = TRUE
    /\ grid = NodeGrid

\* one call of apply_changes_to_batch; the call keeps the batch it was given
\* and the batch it leaves.  The slots are the first and last thread of the
\* periods up to two cycles after the last cycle a history can end with.
ApplyChangesToBatch ==
    /\ status = "running"
    /\ last.op = "new"
    /\ \E slot \in (0..((MaxFirstCycle + cycle_history_length + 2) * periods_per_cycle - 1))
                        \X {0, thread_count - 1},
          changes \in PoSChangesSet, feed \in BOOLEAN,
          batch \in {EmptyBatch, PutAll(EmptyBatch, LedgerEntries("A" :> 1))} :
        LET Done(r) ==
                /\ db' = r.db
                /\ cycle_history_cache' = r.cache
                /\ status' = StepStatus(r.result)
                /\ last' = Call("apply_changes_to_batch", slot,
                                [changes |-> changes, feed |-> feed, batch |-> batch,
                                 left |-> r.batch],
                                r.result, r.feeds)
        IN  Done(apply_changes_to_batch(db, cycle_history_cache, changes, slot, feed, batch))
    /\ UNCHANGED <<grid, last_start_period, last_slot_before_downtime, interp, restarts,
                   one_bit>>

NextApply == ApplyChangesToBatch

SpecApply == InitApply /\ [][NextApply]_vars

ApplyStep == last.op = "new" /\ last'.op = "apply_changes_to_batch"

\* the back of the history takes the cycle: it is this cycle, incomplete, or
\* the cycle before it, complete
BackTakes(cache, cycle) ==
    /\ cache # <<>>
    /\ \/ cache[Len(cache)][1] = cycle /\ ~cache[Len(cache)][2]
       \/ cache[Len(cache)][1] + 1 = cycle /\ cache[Len(cache)][2]

\* C33: apply_changes_to_batch returns an error and leaves the history, the
\* store and the batch as they were unless the back of the history is the
\* cycle of the slot, incomplete, or the cycle before it, complete: an
\* empty history gives ContainerInconsistency and every other back
\* OverflowError; a back that takes the cycle gives neither of the two.
C33_InvalidCycleSequence ==
    [][ApplyStep =>
          LET cycle == get_cycle(last'.arg)
          IN  IF BackTakes(cycle_history_cache, cycle)
              THEN last'.result[1] \notin {"OverflowError", "ContainerInconsistency"}
              ELSE /\ last'.result
                        = <<IF cycle_history_cache = <<>> THEN "ContainerInconsistency"
                            ELSE "OverflowError", cycle>>
                   /\ db' = db
                   /\ cycle_history_cache' = cycle_history_cache
                   /\ last'.changes.left = last'.changes.batch]_vars

\* the call came after an incomplete cycle with the first slot of the next
C33_Witness ==
    /\ last.op = "apply_changes_to_batch"
    /\ last.result[1] = "OverflowError"
    /\ cycle_history_cache # <<>>
    /\ cycle_history_cache[Len(cycle_history_cache)] = <<get_cycle(last.arg) - 1, FALSE>>
    /\ last.changes.batch # EmptyBatch
    /\ last.changes.left = last.changes.batch

\* the seed apply_changes_to_batch accumulates for the cycle of the slot: the
\* stored seed of an incomplete back cycle, or of a new cycle none, with the
\* bits of the slot
AccumulatedSeed(store, cache, cycle, seed_bits) ==
    (IF cache[Len(cache)][1] = cycle THEN store[rng_seed_key(cycle)] ELSE <<>>) \o seed_bits

\* C34: a call for the last slot of a cycle whose accumulated seed is not
\* slots_per_cycle long panics and feeds nothing to the selector; a call
\* for a last slot that returns has accumulated slots_per_cycle bits, and a
\* seed it leaves in the batch is that seed.
C34_SeedLengthChecked ==
    [][(ApplyStep /\ BackTakes(cycle_history_cache, get_cycle(last'.arg))
            /\ is_last_of_cycle(last'.arg)) =>
          LET cycle == get_cycle(last'.arg)
              seed == AccumulatedSeed(db.store, cycle_history_cache, cycle,
                                      last'.changes.changes.seed_bits)
              left == last'.changes.left
          IN  IF Len(seed) # slots_per_cycle
              THEN /\ last'.result = <<"panic", cycle>>
                   /\ last'.feeds = <<>>
              ELSE /\ last'.result[1] # "panic"
                   /\ rng_seed_key(cycle) \in DOMAIN left.put
                   /\ left.put[rng_seed_key(cycle)] = seed]_vars

\* the last slot of a cycle one bit short of its seed, the slot without a bit
C34_Witness ==
    /\ last.op = "apply_changes_to_batch"
    /\ is_last_of_cycle(last.arg)
    /\ last.changes.changes.seed_bits = <<>>
    /\ last.changes.feed
    /\ cycle_history_cache # <<>>
    /\ cycle_history_cache[Len(cycle_history_cache)] = <<get_cycle(last.arg), FALSE>>
    /\ Len(db.store[rng_seed_key(get_cycle(last.arg))]) = slots_per_cycle - 1
    /\ last.result[1] = "panic"
    /\ last.feeds = <<>>

\* the last slot of a cycle that brings the last bit of its seed
C34_CompleteCase ==
    /\ last.op = "apply_changes_to_batch"
    /\ is_last_of_cycle(last.arg)
    /\ last.result[1] = "Ok"
    /\ Len(last.changes.left.put[rng_seed_key(get_cycle(last.arg))]) = slots_per_cycle

\* C34, in the runs of the node: a cycle stored as complete has a seed of
\* slots_per_cycle bits, as long as every slot brought one bit
C34_CompleteSeedLength ==
    one_bit =>
        \A c \in StoredCycles(db.store) :
            is_cycle_complete(db.store, c) =>
                /\ rng_seed_key(c) \in DOMAIN db.store
                /\ Len(db.store[rng_seed_key(c)]) = slots_per_cycle

\* the cycles a history tracks
TrackedCycles(cache) == {cache[i][1] : i \in 1..Len(cache)}

\* the keys of the store a finalize removed, the keys of a cycle that left
\* the history aside
RemovedKeys ==
    {k \in DOMAIN db.store \ DOMAIN db'.store :
        ~(k[1] = CYCLE_HISTORY_PREFIX /\ k[2] \notin TrackedCycles(cycle_history_cache'))}

\* C35: the only keys a finalize removes from the store are deferred
\* credits whose stored amount is 0; no key outside the deferred_credits
\* prefix (complete flags, roll counts, production stats, seeds, ledger
\* entries) is removed.
C35_SweepOnlyZeroCredits ==
    [][FinalizeStep =>
          \A k \in RemovedKeys :
              k[1] = DEFERRED_CREDITS_PREFIX /\ db.store[k] = 0]_vars

\* C35, what the sweep does: every key a finalize removes held a value
\* that reads as the amount zero
C35_WhereSweepDeletes ==
    [][FinalizeStep =>
          \A k \in RemovedKeys : AmountOf(k, db.store[k]) = 0]_vars

----------------------------------------------------------------------------
(* FinalState::is_db_valid.  A key is the tuple of its prefix and the rest *)
(* of it; the validators of the components answer for a key and a value.   *)

ASYNC_POOL_PREFIX == "async_pool"

EXECUTED_OPS_PREFIX == "executed_ops"

EXECUTED_DENUNCIATIONS_PREFIX == "executed_denunciations"

MIP_STORE_PREFIX == "mip_store"

\* a value no deserializer of a component reads
Malformed == -1

\* is_cycle_history_key_value_valid, is_deferred_credits_key_value_valid and
\* is_key_value_valid of the async pool, the executed operations, the
\* executed denunciations and the ledger: the key and the value deserialize
is_key_value_valid(key, value) == value # Malformed

starts_with(key, prefix) == key[1] = prefix

\* a check of the prefixes alone
OnlyPrefixesChecked(store) ==
    \A k \in DOMAIN store :
        k[1] \in {CYCLE_HISTORY_PREFIX, DEFERRED_CREDITS_PREFIX, ASYNC_POOL_PREFIX,
                  EXECUTED_OPS_PREFIX, EXECUTED_DENUNCIATIONS_PREFIX, LEDGER_PREFIX,
                  MIP_STORE_PREFIX}

\* the body of the loop for one key and value: FALSE is the return of false
KeyValueChecked(key, value) ==
    IF /\ ~starts_with(key, CYCLE_HISTORY_PREFIX)
       /\ ~starts_with(key, DEFERRED_CREDITS_PREFIX)
       /\ ~starts_with(key, ASYNC_POOL_PREFIX)
       /\ ~starts_with(key, EXECUTED_OPS_PREFIX)
       /\ ~starts_with(key, EXECUTED_DENUNCIATIONS_PREFIX)
       /\ ~starts_with(key, LEDGER_PREFIX)
       /\ ~starts_with(key, MIP_STORE_PREFIX)
    THEN FALSE
    ELSE IF starts_with(key, CYCLE_HISTORY_PREFIX) THEN is_key_value_valid(key, value)
    ELSE IF starts_with(key, DEFERRED_CREDITS_PREFIX) THEN is_key_value_valid(key, value)
    ELSE IF starts_with(key, ASYNC_POOL_PREFIX) THEN is_key_value_valid(key, value)
    ELSE IF starts_with(key, EXECUTED_OPS_PREFIX) THEN is_key_value_valid(key, value)
    ELSE IF starts_with(key, EXECUTED_DENUNCIATIONS_PREFIX)
         THEN is_key_value_valid(key, value)
    ELSE ~(starts_with(key, LEDGER_PREFIX) /\ ~is_key_value_valid(key, value))

\* the loop over the keys still to visit
RECURSIVE CheckedFrom(_, _)
CheckedFrom(store, keys) ==
    IF keys = {} THEN TRUE
    ELSE LET key == CHOOSE k \in keys : TRUE
         IN  IF ~KeyValueChecked(key, store[key]) THEN FALSE
             ELSE CheckedFrom(store, keys \ {key})

is_db_valid(store) == CheckedFrom(store, DOMAIN store)

\* a store after a bootstrap, with at most one key of each prefix, one of
\* them unknown, its value well formed or not
BootstrappedStores ==
    UNION {[{<<p, 0, 0, NoAddr, 0>> : p \in ps} -> {1, Malformed}] :
              ps \in SUBSET {CYCLE_HISTORY_PREFIX, DEFERRED_CREDITS_PREFIX,
                             ASYNC_POOL_PREFIX, EXECUTED_OPS_PREFIX,
                             EXECUTED_DENUNCIATIONS_PREFIX, LEDGER_PREFIX,
                             MIP_STORE_PREFIX, "unknown"}}

InitValid ==
    /\ \E store \in BootstrappedStores :
          db = [store |-> store, change_id |-> <<0, thread_count - 1>>, hash |-> 0]
    /\ cycle_history_cache = <<>>
    /\ last_start_period = 0
    /\ last_slot_before_downtime = None
    /\ status = "running"
    /\ interp = Idle
    /\ last = Call("new", None, None, <<"Ok", 0>>, <<>>)
    /\ restarts = 0
    /\ one_bit = TRUE
    /\ grid = NodeGrid

IsDbValid ==
    /\ last.op = "new"
    /\ last' = Call("is_db_valid", None, None,
                    <<IF is_db_valid(db.store) THEN "true" ELSE "false", 0>>, <<>>)
    /\ UNCHANGED <<grid, db, cycle_history_cache, last_start_period,
                   last_slot_before_downtime, status, interp, restarts, one_bit>>

NextValid == IsDbValid

SpecValid == InitValid /\ [][NextValid]_vars

\* the prefixes is_db_valid has a validator for
ValidatedPrefixes ==
    {CYCLE_HISTORY_PREFIX, DEFERRED_CREDITS_PREFIX, ASYNC_POOL_PREFIX, EXECUTED_OPS_PREFIX,
     EXECUTED_DENUNCIATIONS_PREFIX, LEDGER_PREFIX}

C36_ValidStore ==
    /\ last.op = "is_db_valid"
    /\ last.result[1] = "true"
    /\ {k[1] : k \in DOMAIN db.store} = ValidatedPrefixes \cup {MIP_STORE_PREFIX}

\* the call that led to this state went through
Committed == status \in {"running", "reset"}

\* C37: after each committed finalize, interpolation step and reset the
\* in-memory cycle history is the stored one: the same cycles with the same
\* complete flags.
C37_CacheAgreesWithStore ==
    Committed => cycle_history_cache = get_cycle_history_cycles(db.store)

\* C37, apart from the resets: as long as no reset emptied the store under
\* the history, the two agree
C37_WhereNoReset ==
    (Committed /\ (cycle_history_cache = <<>> \/ StoredCycles(db.store) # {})) =>
        cycle_history_cache = get_cycle_history_cycles(db.store)

\* the state hash the seed of draw cycle c + 2 is combined with
LookbackStateHash(store, c) ==
    IF c >= 1 THEN store[final_state_hash_snapshot_key(c - 1)][1] ELSE initial_ledger_hash

\* C38: the finalize of the last slot of a cycle C, one seed bit per slot,
\* feeds the selector for draw cycle C + 2 with the hash of the complete
\* seed of C: the slots_per_cycle bits the store holds for C after the
\* finalize, the bit of the slot included.
C38_CompleteSeedFed ==
    (FinalizeAccepted /\ is_last_of_cycle(last.arg) /\ one_bit) =>
        LET c == get_cycle(last.arg)
        IN  /\ rng_seed_key(c) \in DOMAIN db.store
            /\ Len(db.store[rng_seed_key(c)]) = slots_per_cycle
            /\ \E i \in 1..Len(last.feeds) :
                  /\ last.feeds[i].draw_cycle = c + 2
                  /\ last.feeds[i].lookback_seed
                        = compute_from(<<c, into_vec(db.store[rng_seed_key(c)]),
                                         LookbackStateHash(db.store, c)>>)

\* C38, what the finalize of a last slot finds: the history still has the
\* cycle incomplete, no feed is made, and the seed the store holds while
\* feed_selector runs is one bit short
C38_SeedReadBeforeCommit ==
    (FinalizeAccepted /\ is_last_of_cycle(last.arg) /\ one_bit
     /\ rng_seed_key(get_cycle(last.arg)) \in DOMAIN db.store) =>
        /\ last.result = <<"panic_pos", <<"CycleUnfinished", get_cycle(last.arg)>>>>
        /\ last.feeds = <<>>
        /\ Len(db.store[rng_seed_key(get_cycle(last.arg))]) = slots_per_cycle - 1

InterpolationOps ==
    {"interpolate_pop", "interpolate_single_cycle", "interpolate_first_cycle",
     "interpolate_middle_cycle", "interpolate_last_cycle"}

\* C39: no step of interpolate_downtime that follows the read of the
\* snapshot's last cycle panics, whatever the slot of the snapshot and the
\* later end slot, the last slot of a cycle included.
C39_InterpolationNeverPanics ==
    (last.op \in InterpolationOps /\ last.op # "interpolate_pop") => status # "panicked"

\* C39, where the interpolation panics: at the first rebuilt cycle of a
\* snapshot taken at the last slot of its cycle, and at the read of a popped
\* cycle whose seed the zero sweep removed (C6)
C39_WherePanics ==
    (last.op \in InterpolationOps /\ status = "panicked") =>
        \/ /\ last.op = "interpolate_first_cycle"
           /\ is_last_of_cycle(last_slot_before_downtime)
        \/ last.op = "interpolate_pop"

\* C39, the other snapshots: a restart from a slot that is not the last of
\* its cycle goes through every step after the read of the popped cycle
C39_OtherSnapshots ==
    (last.op \in InterpolationOps /\ last.op # "interpolate_pop"
     /\ ~is_last_of_cycle(last_slot_before_downtime)) => status # "panicked"

\* the cycles before the cycle of a slot that are complete and stay tracked
EarlierCompleteCycles(slot) ==
    {c \in TrackedComplete : c < get_cycle(slot) /\ c \in TrackedCycles(cycle_history_cache')}

\* the snapshot, the roll counts, the seed and the production stats the store
\* holds for a cycle
FrozenPart(store, c) ==
    [snapshot |-> IF final_state_hash_snapshot_key(c) \in DOMAIN store
                  THEN store[final_state_hash_snapshot_key(c)] ELSE None,
     roll_counts |-> get_all_roll_counts(store, c),
     rng_seed |-> IF rng_seed_key(c) \in DOMAIN store THEN store[rng_seed_key(c)] ELSE <<>>,
     production_stats |-> get_all_production_stats(store, c)]

\* C40: the finalize of a slot of a later cycle leaves the
\* final_state_hash_snapshot, the roll counts, the seed and the production
\* stats of every earlier complete cycle as they were, and sets the snapshot
\* of no other cycle than its own.
C40_CompleteCycleFrozen ==
    [][FinalizeStep =>
          /\ \A c \in EarlierCompleteCycles(last'.arg) :
                FrozenPart(db'.store, c) = FrozenPart(db.store, c)
          /\ \A c \in TrackedCycles(cycle_history_cache') \ {get_cycle(last'.arg)} :
                FrozenPart(db'.store, c).snapshot = FrozenPart(db.store, c).snapshot]_vars

\* a finalize in cycle 1 with cycle 0 complete and its snapshot set
C40_Witness ==
    /\ FinalizedOk
    /\ get_cycle(last.arg) = 1
    /\ 0 \in TrackedComplete
    /\ FrozenPart(db.store, 0).snapshot # None
    /\ FrozenPart(db.store, 1).snapshot # None
    /\ FrozenPart(db.store, 0).snapshot # FrozenPart(db.store, 1).snapshot

\* the entries of a function of counts that are not zero
NonZero(f) == Restrict(f, {a \in DOMAIN f : f[a] # 0})

\* the counts of the production stats, zero for an address without stats
StatCounts(stats) ==
    [a \in Addresses |->
        IF a \in DOMAIN stats
        THEN <<stats[a].block_success_count, stats[a].block_failure_count>> ELSE <<0, 0>>]

\* C40, what does stay: the snapshot and the seed of an earlier complete
\* cycle, its roll counts that are not zero and the counts of its stats
C40_FrozenUpToZeros ==
    [][FinalizeStep =>
          /\ \A c \in EarlierCompleteCycles(last'.arg) :
                /\ FrozenPart(db'.store, c).snapshot = FrozenPart(db.store, c).snapshot
                /\ FrozenPart(db'.store, c).rng_seed = FrozenPart(db.store, c).rng_seed
                /\ NonZero(FrozenPart(db'.store, c).roll_counts)
                      = NonZero(FrozenPart(db.store, c).roll_counts)
                /\ StatCounts(FrozenPart(db'.store, c).production_stats)
                      = StatCounts(FrozenPart(db.store, c).production_stats)
          /\ \A c \in TrackedCycles(cycle_history_cache') \ {get_cycle(last'.arg)} :
                FrozenPart(db'.store, c).snapshot = FrozenPart(db.store, c).snapshot]_vars

====
